---- MODULE Spec2Model ----
(***************************************************************************)
(* Evidence ingestion and pattern-matching pipeline of prometheus_gise:    *)
(* the resilient runner (src/logger.py), run_pipeline (src/main.py), the   *)
(* content navigator (src/content_navigator.py), the database reader       *)
(* (src/database_reader.py), the pattern engine (src/regex_engine.py),     *)
(* the evidence builder (src/forensics.py) and the reporter                *)
(* (src/reporter.py).                                                      *)
(*                                                                         *)
(* Texts are sequences of one-character strings.  Exceptions are modelled  *)
(* as result records carrying the exception's name.                        *)
(***************************************************************************)
EXTENDS Integers, Sequences, FiniteSets, TLC

\* ------------------------------------------------------------------ bounds
\* longest sequence of items handed to execute_with_resilience
MaxArchives == 2
\* most members of one generated archive
MaxMembers == 2
\* most entries of a generated pattern list
MaxEntries == 2
\* longest text handed to scan_text
MaxText == 4
\* most rules of an engine constructed directly
MaxRules == 2
\* widest context window handed to scan_text
MaxWindow == 2
\* most rows handed to scan_table
MaxRows == 2
\* most calls made on one ResultReporter
MaxOps == 3
\* most records held by a reporter whose write() is followed step by step
MaxRecords == 2

\* ------------------------------------------------------- Python-ish helpers
None == "None"

Range(s) == {s[i] : i \in 1..Len(s)}

\* all sequences over S of length at most n without repeated elements
RECURSIVE DistinctSeqs(_, _)
DistinctSeqs(S, n) ==
  IF n = 0 THEN {<<>>}
  ELSE LET shorter == DistinctSeqs(S, n - 1)
       IN shorter \cup UNION {{Append(q, x) : x \in S \ Range(q)} :
                               q \in {r \in shorter : Len(r) = n - 1}}

\* all sequences over S of length at most n
RECURSIVE AllSeqs(_, _)
AllSeqs(S, n) ==
  IF n = 0 THEN {<<>>}
  ELSE LET shorter == AllSeqs(S, n - 1)
       IN shorter \cup {Append(q, x) : q \in {r \in shorter : Len(r) = n - 1}, x \in S}

\* the characters str.strip() removes, among those the model's texts hold
Whitespace == {" ", "\t", "\n", "\r"}

\* `not text.strip()`: the text is empty or holds only whitespace
IsBlank(text) == \A i \in 1..Len(text) : text[i] \in Whitespace

\* str.lower() on the suffixes and flag names of the model
Lower(s) ==
  CASE s = ".SQLITE" -> ".sqlite"
    [] s = ".PNG" -> ".png"
    [] s = "IGNORECASE" -> "ignorecase"
    [] s = "DotAll" -> "dotall"
    [] OTHER -> s

\* ------------------------------------------------ pattern configuration
\* A JSON value of a pattern file: t is its type, s its text, l its elements.
JStr(s) == [t |-> "str", s |-> s, l |-> <<>>]
\* a string value read as an expression: l holds its characters
JExpr(chars) == [t |-> "str", s |-> "", l |-> chars]
JNum(s) == [t |-> "num", s |-> s, l |-> <<>>]
JList(l) == [t |-> "list", s |-> "", l |-> l]
JBool(s) == [t |-> "bool", s |-> s, l |-> <<>>]
JObject(s) == [t |-> "object", s |-> s, l |-> <<>>]

JAbsent == [t |-> "absent", s |-> "", l |-> <<>>]

\* Python truth value of a JSON value, as the `or` of entry.get(..) uses it
Truthy(v) ==
  CASE v.t = "str" -> v.s # "" \/ v.l # <<>>
    [] v.t = "num" -> v.s # "0"
    [] v.t = "bool" -> v.s = "true"
    [] v.t = "list" -> v.l # <<>>
    [] v.t = "object" -> v.s # "{}"
    [] OTHER -> FALSE

\* a or b
PyOr(a, b) == IF Truthy(a) THEN a ELSE b

\* the keys of _FLAG_TABLE
FLAG_TABLE == {"ignorecase", "multiline", "dotall", "unicode"}

\* default_flags of from_config: re.IGNORECASE
DefaultFlags == {"ignorecase"}

\* re.compile(expression): the one expression of the model that is no regex
Compiles(expression) == expression # <<"(">>

\* a list entry of a pattern file that is a mapping
Entry(name, regex, pattern, flags) ==
  [mapping |-> TRUE, name |-> name, regex |-> regex, pattern |-> pattern,
   flags |-> flags, options |-> JAbsent]

\* a list entry of a pattern file that is no mapping (a bare string)
NotAMapping ==
  [mapping |-> FALSE, name |-> JAbsent, regex |-> JAbsent, pattern |-> JAbsent,
   flags |-> JAbsent, options |-> JAbsent]

Raised(exc) == [ok |-> FALSE, exc |-> exc, rule |-> None, rules |-> <<>>]
Rule(name, expression, flags) == [name |-> name, expression |-> expression, flags |-> flags]

\* the flags of a list of flag names, or the error of its first bad element
RECURSIVE FlagList(_, _)
FlagList(l, acc) ==
  IF l = <<>> THEN [ok |-> TRUE, exc |-> "", flags |-> acc]
  ELSE IF Head(l).t # "str" THEN [ok |-> FALSE, exc |-> "ValueError", flags |-> {}]
  ELSE IF Lower(Head(l).s) \notin FLAG_TABLE THEN [ok |-> FALSE, exc |-> "ValueError", flags |-> {}]
  ELSE FlagList(Tail(l), acc \cup {Lower(Head(l).s)})

\* _pattern_from_mapping(entry, default_flags)
pattern_from_mapping(entry) ==
  IF ~entry.mapping THEN Raised("ValueError")
  ELSE
    LET name == entry.name
        expression == PyOr(entry.regex, entry.pattern)
        raw_flags == PyOr(entry.flags, entry.options)
        listed == FlagList(raw_flags.l, {})
        flags == CASE raw_flags.t = "str" ->
                        IF Lower(raw_flags.s) \in FLAG_TABLE THEN {Lower(raw_flags.s)}
                        ELSE DefaultFlags
                   [] raw_flags.t = "list" -> listed.flags
                   [] OTHER -> DefaultFlags
    IN IF name.t # "str" \/ expression.t # "str" THEN Raised("ValueError")
       ELSE IF raw_flags.t = "list" /\ ~listed.ok THEN Raised("ValueError")
       ELSE IF raw_flags.t \notin {"str", "list", "absent", "null"} THEN Raised("ValueError")
       ELSE IF ~Compiles(expression.l) THEN Raised("re.error")
       ELSE [ok |-> TRUE, exc |-> "",
             rule |-> Rule(name.s, expression.l, IF flags = {} THEN DefaultFlags ELSE flags),
             rules |-> <<>>]

\* a loader that leaves out the entries it cannot read
RECURSIVE PatternsFromEntries_skipping(_, _)
PatternsFromEntries_skipping(entries, acc) ==
  IF entries = <<>> THEN [ok |-> TRUE, exc |-> "", rule |-> None, rules |-> acc]
  ELSE LET r == pattern_from_mapping(Head(entries))
       IN IF r.ok THEN PatternsFromEntries_skipping(Tail(entries), Append(acc, r.rule))
          ELSE PatternsFromEntries_skipping(Tail(entries), acc)

\* the list comprehension over the entries: the first entry that raises ends it
RECURSIVE PatternsFromEntries(_, _)
PatternsFromEntries(entries, acc) ==
  IF entries = <<>> THEN [ok |-> TRUE, exc |-> "", rule |-> None, rules |-> acc]
  ELSE LET r == pattern_from_mapping(Head(entries))
       IN IF r.ok THEN PatternsFromEntries(Tail(entries), Append(acc, r.rule))
          ELSE Raised(r.exc)

\* the rules of a flat name -> expression object, in key order
RECURSIVE FlatPatterns(_, _)
FlatPatterns(pairs, acc) ==
  IF pairs = <<>> THEN [ok |-> TRUE, exc |-> "", rule |-> None, rules |-> acc]
  ELSE IF ~Compiles(Head(pairs).v.l) THEN Raised("re.error")
  ELSE FlatPatterns(Tail(pairs),
                    Append(acc, Rule(Head(pairs).k, Head(pairs).v.l, DefaultFlags)))

\* _load_patterns(payload, default_flags).  A payload is an object (its
\* "patterns" list when it has one, and its other key/value pairs), a list,
\* or any other JSON value.
load_patterns(payload) ==
  IF payload.shape = "object" /\ payload.patterns_list
    THEN PatternsFromEntries(payload.entries, <<>>)
  ELSE IF payload.shape = "object" /\ \A i \in 1..Len(payload.pairs) : payload.pairs[i].v.t = "str"
    THEN FlatPatterns(payload.pairs, <<>>)
  ELSE IF payload.shape = "list"
    THEN PatternsFromEntries(payload.entries, <<>>)
  ELSE Raised("ValueError")

\* an engine that accepts an empty list of rules
RegexEngine_init_accepts_empty(patterns) ==
  [ok |-> TRUE, exc |-> "", rule |-> None, rules |-> patterns]

\* RegexEngine.__init__(patterns)
RegexEngine_init(patterns) ==
  IF patterns = <<>> THEN Raised("ValueError")
  ELSE [ok |-> TRUE, exc |-> "", rule |-> None, rules |-> patterns]

\* RegexEngine.from_config(config_path): open the file, json.load, load the
\* patterns, construct the engine
from_config(config) ==
  IF config.file = "missing" THEN Raised("FileNotFoundError")
  ELSE IF config.file = "invalid_json" THEN Raised("JSONDecodeError")
  ELSE LET loaded == load_patterns(config.payload)
       IN IF loaded.ok THEN RegexEngine_init(loaded.rules) ELSE Raised(loaded.exc)

\* ------------------------------------------------- pattern files of the model
NoPayload == [shape |-> "scalar", patterns_list |-> FALSE, entries |-> <<>>, pairs |-> <<>>]
Wrapped(entries) == [shape |-> "object", patterns_list |-> TRUE, entries |-> entries, pairs |-> <<>>]
Flat(pairs) == [shape |-> "object", patterns_list |-> FALSE, entries |-> <<>>, pairs |-> pairs]
Bare(entries) == [shape |-> "list", patterns_list |-> FALSE, entries |-> entries, pairs |-> <<>>]
File(payload) == [file |-> "ok", payload |-> payload]

EmailEntry == Entry(JStr("Email"), JExpr(<<"k">>), JAbsent, JAbsent)
PhoneEntry == Entry(JStr("Phone"), JAbsent, JExpr(<<"9">>), JList(<<JStr("multiline")>>))
NoNameEntry == Entry(JAbsent, JExpr(<<"k">>), JAbsent, JAbsent)
NoRegexEntry == Entry(JStr("Email"), JAbsent, JAbsent, JAbsent)

\* pattern files that load
GoodConfigs ==
  { File(Flat(<<[k |-> "Email", v |-> JExpr(<<"k">>)]>>)),
    File(Wrapped(<<EmailEntry, PhoneEntry>>)),
    File(Bare(<<EmailEntry>>)) }

\* pattern files that are missing, unreadable, empty or malformed
BadConfigs ==
  { [file |-> "missing", payload |-> NoPayload],
    [file |-> "invalid_json", payload |-> NoPayload],
    File(NoPayload),
    File(Flat(<<>>)),
    File(Flat(<<[k |-> "Email", v |-> JNum("1")]>>)),
    File(Flat(<<[k |-> "Email", v |-> JExpr(<<"(">>)]>>)),
    File(Wrapped(<<>>)),
    File(Bare(<<>>)),
    File(Bare(<<NotAMapping>>)),
    File(Bare(<<EmailEntry, NoNameEntry>>)),
    File(Wrapped(<<NoRegexEntry, EmailEntry>>)) }

Configs == GoodConfigs \cup BadConfigs

\* the values an entry of the model has under "flags"
FlagValues ==
  { JAbsent, JStr(""), JStr("ignorecase"), JStr("DotAll"), JStr("verbose"),
    JList(<<>>), JList(<<JStr("IGNORECASE"), JStr("dotall")>>),
    JList(<<JStr("verbose")>>), JList(<<JStr("dotall"), JNum("1")>>),
    JNum("0"), JNum("1"), JBool("false"), JObject("{}") }

\* the entries of the pattern lists handed to from_config directly
ListEntries ==
  {Entry(JStr("Email"), JExpr(<<"k">>), JAbsent, flags) : flags \in FlagValues}
  \cup { PhoneEntry, NoNameEntry, NoRegexEntry, NotAMapping,
         Entry(JStr("Email"), JExpr(<<"(">>), JAbsent, JAbsent) }

\* the pattern files handed to from_config directly: lists of at most
\* MaxEntries entries, wrapped and bare
ListConfigs ==
  UNION {{File(Wrapped(entries)), File(Bare(entries))} :
           entries \in AllSeqs(ListEntries, MaxEntries)}

\* ---------------------------------------------------------- pattern engine
\* context_window default of scan_text and scan_table
ContextWindow == 40

Max(a, b) == IF a >= b THEN a ELSE b
Min(a, b) == IF a <= b THEN a ELSE b

\* text[left:right] with 0 <= left, right <= len(text)
Slice(text, left, right) ==
  IF right <= left THEN <<>> ELSE SubSeq(text, left + 1, right)

LowerChar(c) == IF c = "K" THEN "k" ELSE c

\* one character of the text against one of a literal expression, under the rule's flags
CharMatches(flags, p, c) ==
  IF "ignorecase" \in flags THEN LowerChar(p) = LowerChar(c) ELSE p = c

MatchesAt(rule, text, i) ==
  /\ i + Len(rule.expression) - 1 <= Len(text)
  /\ \A j \in 1..Len(rule.expression) :
        CharMatches(rule.flags, rule.expression[j], text[i + j - 1])

\* pattern.finditer(text) from position i (1-based): the non-overlapping
\* occurrences, left to right; an empty expression matches at every position
RECURSIVE finditer(_, _, _)
finditer(rule, text, i) ==
  IF i > Len(text) + 1 THEN <<>>
  ELSE IF rule.expression = <<>>
    THEN <<[start |-> i - 1, end |-> i - 1]>> \o finditer(rule, text, i + 1)
  ELSE IF MatchesAt(rule, text, i)
    THEN <<[start |-> i - 1, end |-> i - 1 + Len(rule.expression)]>>
         \o finditer(rule, text, i + Len(rule.expression))
  ELSE finditer(rule, text, i + 1)

\* a context whose left end is not clamped: text[start - window:right], where
\* a negative index counts from the end of the text
extract_context_unclamped(text, start, end, window) ==
  LET left == IF start - window >= 0 THEN start - window
              ELSE Max(Len(text) + start - window, 0)
      right == Min(end + window, Len(text))
  IN Slice(text, left, right)

\* _extract_context(text, start, end, window)
extract_context(text, start, end, window) ==
  LET left == Max(start - window, 0)
      right == Min(end + window, Len(text))
  IN Slice(text, left, right)

NoLocation == [row |-> -1, column |-> ""]

RegexMatch(rule, text, span, window) ==
  [pattern |-> rule.name,
   value |-> Slice(text, span.start, span.end),
   start |-> span.start,
   end |-> span.end,
   context |-> extract_context(text, span.start, span.end, window),
   location |-> NoLocation]

MatchesOfRule(rule, text, window) ==
  LET spans == finditer(rule, text, 1)
  IN [i \in 1..Len(spans) |-> RegexMatch(rule, text, spans[i], window)]

\* an engine that puts the matches of the later rules first
RECURSIVE scan_text_later_rules_first(_, _, _)
scan_text_later_rules_first(patterns, text, window) ==
  IF patterns = <<>> THEN <<>>
  ELSE scan_text_later_rules_first(Tail(patterns), text, window)
       \o MatchesOfRule(Head(patterns), text, window)

\* RegexEngine.scan_text(text, context_window)
RECURSIVE scan_text(_, _, _)
scan_text(patterns, text, window) ==
  IF patterns = <<>> THEN <<>>
  ELSE MatchesOfRule(Head(patterns), text, window) \o scan_text(Tail(patterns), text, window)

\* match.with_location(f"row={row_index};column={column_name}")
with_location(match, row_index, column_name) ==
  [match EXCEPT !.location = [row |-> row_index, column |-> column_name]]

\* the cells of one row that scan_table looks at: the named columns ("" for
\* an absent one) when a non-empty column list is given, else every item
CellOf(row, column) ==
  IF \E i \in 1..Len(row) : row[i].column = column
  THEN row[CHOOSE i \in 1..Len(row) : row[i].column = column]
  ELSE [column |-> column, str |-> TRUE, value |-> <<>>]

RowCells(row, columns) ==
  IF columns # <<>> THEN [i \in 1..Len(columns) |-> CellOf(row, columns[i])]
  ELSE row

RECURSIVE ScanCells(_, _, _, _)
ScanCells(patterns, cells, row_index, window) ==
  IF cells = <<>> THEN <<>>
  ELSE LET cell == Head(cells)
           found == IF cell.str THEN scan_text(patterns, cell.value, window) ELSE <<>>
       IN [i \in 1..Len(found) |-> with_location(found[i], row_index, cell.column)]
          \o ScanCells(patterns, Tail(cells), row_index, window)

\* an engine that numbers only the rows it found something in
RECURSIVE ScanRows_numbering_hits(_, _, _, _, _)
ScanRows_numbering_hits(patterns, rows, columns, row_index, window) ==
  IF rows = <<>> THEN <<>>
  ELSE LET found == ScanCells(patterns, RowCells(Head(rows), columns), row_index, window)
       IN found \o ScanRows_numbering_hits(patterns, Tail(rows), columns,
                                           IF found = <<>> THEN row_index
                                           ELSE row_index + 1, window)

\* RegexEngine.scan_table(rows, columns, context_window); columns = <<>> is
\* `columns` None or empty
RECURSIVE ScanRows(_, _, _, _, _)
ScanRows(patterns, rows, columns, row_index, window) ==
  IF rows = <<>> THEN <<>>
  ELSE ScanCells(patterns, RowCells(Head(rows), columns), row_index, window)
       \o ScanRows(patterns, Tail(rows), columns, row_index + 1, window)

scan_table(patterns, rows, columns, window) == ScanRows(patterns, rows, columns, 0, window)

\* --------------------------------------------------------- evidence builder
\* str.strip()
RECURSIVE LStrip(_)
LStrip(text) ==
  IF text # <<>> /\ Head(text) \in Whitespace THEN LStrip(Tail(text)) ELSE text

RECURSIVE RStrip(_)
RStrip(text) ==
  IF text # <<>> /\ text[Len(text)] \in Whitespace
  THEN RStrip(SubSeq(text, 1, Len(text) - 1)) ELSE text

Strip(text) == RStrip(LStrip(text))

NoTime == [present |-> FALSE, aware |-> FALSE, clock |-> 0, offset |-> 0, z |-> FALSE]

\* A datetime: clock is its wall clock in minutes, offset its zone's UTC offset
\* in minutes (aware values only).
\* datetime.isoformat(): the wall clock followed by the offset of an aware
\* value
OffsetText(offset) ==
  CASE offset = 0 -> "+00:00"
    [] offset = 120 -> "+02:00"
    [] offset = -180 -> "-03:00"
    [] OTHER -> "+hh:mm"
isoformat(value) ==
  [clock |-> value.clock, suffix |-> IF value.aware THEN OffsetText(value.offset) ELSE ""]

\* str.replace("+00:00", "Z") on a rendered datetime
replace_utc_suffix(text) ==
  [text EXCEPT !.suffix = IF @ = "+00:00" THEN "Z" ELSE @]

\* value.replace(tzinfo=timezone.utc) and value.astimezone(timezone.utc)
replace_tzinfo_utc(value) == [value EXCEPT !.aware = TRUE, !.offset = 0]
astimezone_utc(value) ==
  [value EXCEPT !.clock = value.clock - value.offset, !.offset = 0]

\* a builder that renders an aware value in its own zone
format_timestamp_in_own_zone(value) ==
  IF ~value.present THEN NoTime
  ELSE LET text == replace_utc_suffix(isoformat(
                     IF ~value.aware THEN replace_tzinfo_utc(value) ELSE value))
       IN [present |-> TRUE, aware |-> TRUE, clock |-> text.clock,
           offset |-> IF value.aware THEN value.offset ELSE 0, z |-> text.suffix = "Z"]

\* _format_timestamp(value): the rendered instant; z says the rendering ends
\* with "Z"
format_timestamp(value) ==
  IF ~value.present THEN NoTime
  ELSE LET text == replace_utc_suffix(isoformat(
                     IF ~value.aware THEN replace_tzinfo_utc(value)
                     ELSE astimezone_utc(value)))
       IN [present |-> TRUE, aware |-> TRUE, clock |-> text.clock, offset |-> 0,
           z |-> text.suffix = "Z"]

Piece(kind, name, n, text) == [kind |-> kind, name |-> name, n |-> n, text |-> text]

\* a builder that tests the row index for truth
compose_context_truthy_row(payload, match) ==
  LET structural ==
        IF payload.payload_type = "database_row"
        THEN (IF payload.table # "" THEN <<Piece("tabela", payload.table, 0, <<>>)>> ELSE <<>>)
             \o (IF payload.row_index > 0
                 THEN <<Piece("linha", "", payload.row_index, <<>>)>> ELSE <<>>)
        ELSE <<>>
      located ==
        IF match.location # NoLocation
        THEN <<Piece("location", match.location.column, match.location.row, <<>>)>>
        ELSE <<>>
      window ==
        IF match.context # <<>> THEN <<Piece("context", "", 0, Strip(match.context))>>
        ELSE <<>>
  IN structural \o located \o window

\* _compose_context(payload, regex_match): the pieces that " | " joins, and
\* <<>> for None.  A payload without a table has table "", one without a row
\* index has row_index -1.
compose_context(payload, match) ==
  LET structural ==
        IF payload.payload_type = "database_row"
        THEN (IF payload.table # "" THEN <<Piece("tabela", payload.table, 0, <<>>)>> ELSE <<>>)
             \o (IF payload.row_index # -1
                 THEN <<Piece("linha", "", payload.row_index, <<>>)>> ELSE <<>>)
        ELSE <<>>
      located ==
        IF match.location # NoLocation
        THEN <<Piece("location", match.location.column, match.location.row, <<>>)>>
        ELSE <<>>
      window ==
        IF match.context # <<>> THEN <<Piece("context", "", 0, Strip(match.context))>>
        ELSE <<>>
  IN structural \o located \o window

\* build_evidence_match(payload, regex_match)
build_evidence_match(payload, match) ==
  [source_file |-> payload.source_file,
   internal_path |-> payload.internal_path,
   file_type |-> payload.file_type,
   pattern_type |-> match.pattern,
   match_value |-> match.value,
   context |-> compose_context(payload, match),
   timestamp |-> format_timestamp(payload.modified)]

\* ------------------------------------------------------- archives on disk
\* The members an archive of the model can hold, by name.
DatabaseNames ==
  {"data/messages.db", "logs.SQLITE", "notdb.db", "trunc.sqlite3", "gone.s3db",
   "scan.db", "col.db", "lock.db"}
TextNames == {"r.txt", "blank.md", "empty.csv", "scan.pdf", "x.docx", "i.PNG", "lost.txt"}
OtherNames == {"a.bin", "d.db/", "t.txt/"}
MemberNames == DatabaseNames \cup TextNames \cup OtherNames

\* ZipInfo.is_dir(): the name ends with "/"
IsDirName(name) == name \in {"d.db/", "t.txt/"}

\* Path(name).suffix
Suffix(name) ==
  CASE name \in {"data/messages.db", "notdb.db", "scan.db", "col.db", "lock.db", "d.db/"} -> ".db"
    [] name = "logs.SQLITE" -> ".SQLITE"
    [] name = "trunc.sqlite3" -> ".sqlite3"
    [] name = "gone.s3db" -> ".s3db"
    [] name \in {"r.txt", "lost.txt", "t.txt/"} -> ".txt"
    [] name = "blank.md" -> ".md"
    [] name = "empty.csv" -> ".csv"
    [] name = "scan.pdf" -> ".pdf"
    [] name = "x.docx" -> ".docx"
    [] name = "i.PNG" -> ".PNG"
    [] OTHER -> ".bin"

\* datetime(*info.date_time) of a member: a naive time, or None when the
\* date stored with the entry is no date (i.PNG is stored with month 0)
ModifiedOf(name) ==
  IF name = "i.PNG" THEN NoTime
  ELSE [present |-> TRUE, aware |-> FALSE, clock |-> 0, offset |-> 0, z |-> FALSE]

\* UFDRMember
Member(name) == [name |-> name, is_dir |-> IsDirName(name), modified |-> ModifiedOf(name)]

\* The archive reader's operation that opens one member as a scoped byte
\* stream, as the archive reader's specification describes it.  What reading
\* the member through it does: the stream opens and reads to the end, opening
\* it fails, or a read fails part-way.
openMember(name) ==
  CASE name \in {"gone.s3db", "lost.txt"} -> "open_error"
    [] name = "trunc.sqlite3" -> "read_error"
    [] OTHER -> "ok"

Cell(column, value) == [column |-> column, str |-> TRUE, value |-> value]
Table(name, columns, rows) == [name |-> name, columns |-> columns, rows |-> rows]

\* The SQLite content of a database member: its tables in catalog order, each
\* with its columns and raw rows, and the step of reading it that fails.
DbOf(name) ==
  CASE name = "data/messages.db" ->
         [fail |-> "none",
          tables |-> <<Table("messages", <<"body">>, << <<<<"k">>>>, <<<<"x">>>> >>)>>]
    [] name = "logs.SQLITE" ->
         [fail |-> "none",
          tables |-> <<Table("a", <<"c">>, << <<<<"K">>>> >>),
                       Table("b", <<"c">>, << <<<<>>>> >>)>>]
    [] name = "scan.db" ->
         [fail |-> "scan",
          tables |-> <<Table("t", <<"c">>, << <<<<"k">>>>, <<<<"k">>>> >>)>>]
    [] name = "col.db" ->
         [fail |-> "columns", tables |-> <<Table("t", <<"c">>, << <<<<"k">>>> >>)>>]
    [] name = "lock.db" -> [fail |-> "connect", tables |-> <<>>]
    [] name = "notdb.db" -> [fail |-> "tables", tables |-> <<>>]
    [] OTHER -> [fail |-> "none", tables |-> <<>>]

\* rows of a table the cursor returns before a failing scan raises
ScanFailsAfter(name) == IF DbOf(name).fail = "scan" THEN 1 ELSE -1

\* TextExtractor.extract on the bytes of a member: the text and the engine by
\* suffix.  No branch raises: a library that is not installed or fails gives
\* the empty text (scan.pdf and x.docx are read without pdfminer and
\* python-docx installed), and a suffix without a branch of its own is read
\* as plain text.
ConvOf(name) ==
  CASE name \in {"r.txt", "lost.txt"} ->
         [kind |-> "ok", text |-> <<"x", "k">>, engine |-> "plain-text"]
    [] name = "i.PNG" -> [kind |-> "ok", text |-> <<" ", "K", " ">>, engine |-> "plain-text"]
    [] name = "blank.md" -> [kind |-> "ok", text |-> <<" ", "\n">>, engine |-> "plain-text"]
    [] name = "empty.csv" -> [kind |-> "ok", text |-> <<>>, engine |-> "csv"]
    [] name = "scan.pdf" -> [kind |-> "ok", text |-> <<>>, engine |-> "pdfminer"]
    [] name = "x.docx" -> [kind |-> "ok", text |-> <<>>, engine |-> "docx-unavailable"]
    [] OTHER -> [kind |-> "ok", text |-> <<>>, engine |-> "plain-text"]

\* an archive path on disk: a zip container with members, or something else
Zip(names) == [kind |-> "zip", names |-> names]
NotZip == [kind |-> "notzip", names |-> <<>>]
Missing == [kind |-> "missing", names |-> <<>>]
Directory == [kind |-> "directory", names |-> <<>>]

\* ----------------------------------------------------------- UFDRExtractor
\* validate_source(): the exception it raises, "" for none
validate_source(archive) ==
  CASE archive.kind = "missing" -> "FileNotFoundError"
    [] archive.kind = "directory" -> "IsADirectoryError"
    [] OTHER -> ""

\* list(iter_members())
iter_members(archive) ==
  IF validate_source(archive) # "" THEN [ok |-> FALSE, exc |-> validate_source(archive), members |-> <<>>]
  ELSE IF archive.kind = "notzip" THEN [ok |-> FALSE, exc |-> "BadZipFile", members |-> <<>>]
  ELSE [ok |-> TRUE, exc |-> "", members |-> [i \in 1..Len(archive.names) |-> Member(archive.names[i])]]

\* self._extractor.open_member(member.name), read to the end by the caller.
\* The extractor is the UFDRExtractor class as it stands, which defines no
\* open_member, so that the attribute lookup raises AttributeError, or a
\* reader that provides the operation (the one the tests of the database
\* reader read rows through).
open_member(extractor, name) ==
  IF extractor = "UFDRExtractor" THEN "AttributeError" ELSE openMember(name)

\* ---------------------------------------------------- UFDRContentNavigator
TEXTUAL_EXTENSIONS ==
  {".txt", ".csv", ".tsv", ".json", ".xml", ".html", ".htm", ".md", ".rtf", ".pdf",
   ".eml", ".msg", ".doc", ".docx", ".ppt", ".pptx", ".xls", ".xlsx", ".ics", ".vcf",
   ".epub", ".odt", ".odp", ".ods", ".log"}
IMAGE_EXTENSIONS ==
  {".png", ".jpg", ".jpeg", ".heic", ".heif", ".tiff", ".tif", ".bmp", ".gif", ".webp"}
SQLITE_EXTENSIONS == {".db", ".sqlite", ".sqlite3", ".s3db"}

is_database(member) == ~member.is_dir /\ Lower(Suffix(member.name)) \in SQLITE_EXTENSIONS

is_textual(member) ==
  Lower(Suffix(member.name)) \in TEXTUAL_EXTENSIONS \cup IMAGE_EXTENSIONS

guess_file_type(member) ==
  LET suffix == Lower(Suffix(member.name))
  IN IF suffix \in IMAGE_EXTENSIONS THEN "image"
     ELSE IF suffix \in TEXTUAL_EXTENSIONS
       THEN IF suffix \in {".pdf", ".doc", ".docx", ".ppt", ".pptx"} THEN "document"
            ELSE IF suffix \in {".xls", ".xlsx", ".ods"} THEN "spreadsheet"
            ELSE IF suffix \in {".eml", ".msg"} THEN "email"
            ELSE IF suffix \in {".ics"} THEN "calendar"
            ELSE IF suffix \in {".vcf"} THEN "contact"
            ELSE "text"
     ELSE "binary"

\* a planner that takes directories with a textual suffix for textual members
KeepTextual_with_directories(member) == is_textual(member)

KeepTextual(member) == ~member.is_dir /\ is_textual(member)

NoPlan == [members |-> <<>>, database_members |-> <<>>, textual_members |-> <<>>]

\* plan_processing()
plan_processing(archive) ==
  LET listed == iter_members(archive)
  IN IF ~listed.ok THEN [ok |-> FALSE, exc |-> listed.exc, plan |-> NoPlan]
     ELSE [ok |-> TRUE, exc |-> "",
           plan |-> [members |-> listed.members,
                     database_members |-> SelectSeq(listed.members, is_database),
                     textual_members |-> SelectSeq(listed.members, KeepTextual)]]

\* ------------------------------------------------------- payloads and log
\* EvidencePayload.  content is the text of a text payload, cells the
\* column/value items of a database-row payload.
NoOut ==
  [source_file |-> "", internal_path |-> "", payload_type |-> "none", file_type |-> "",
   content |-> <<>>, cells |-> <<>>, table |-> "", row_index |-> -1, engine |-> "",
   modified |-> NoTime]

\* What a generator did, in order: "iter_rows" (iter_rows entered for a
\* database member), "attempt" (_collect_text_payload called for a textual
\* member), "event" (the progress callback called) and "yield" (a payload
\* handed to the consumer).
LogEntry(kind, name, index, total, stage, payload) ==
  [kind |-> kind, name |-> name, index |-> index, total |-> total, stage |-> stage,
   payload |-> payload]

\* ---------------------------------------------------- UFDRDatabaseReader
\* _materialize_member, up to its yield: the scratch file is created, then
\* the member stream is opened and copied into it inside `with` scopes.
\* scratch is the set of scratch files on storage.
materialize_member(scratch, extractor, name) ==
  LET stream == open_member(extractor, name)
  IN [ok |-> stream = "ok",
      exc |-> CASE stream = "AttributeError" -> "AttributeError"
                [] stream = "open_error" -> "KeyError"
                [] stream = "read_error" -> "BadZipFile"
                [] OTHER -> "",
      scratch |-> scratch \cup {name}]

\* _materialize_member, after its yield: the `finally` that unlinks the file
materialize_cleanup(scratch, name) == scratch \ {name}

\* _normalize_row(dict(zip(columns, row)))
normalize_row(columns, row) ==
  [i \in 1..Min(Len(columns), Len(row)) |-> Cell(columns[i], row[i])]

\* ------------------------------------------- collect_payloads, a generator
\* a navigator that catches the missing capability only
collect_text_payload_propagating(source, member, extractor) ==
  LET stream == open_member(extractor, member.name)
      conv == ConvOf(member.name)
      nothing == [kind |-> "none", payload |-> NoOut, engine |-> ""]
  IN IF stream # "ok" THEN [nothing EXCEPT !.kind = IF stream = "AttributeError" THEN stream ELSE "KeyError"]
     ELSE IF conv.kind = "MissingDependencyError" THEN nothing
     ELSE IF conv.kind # "ok" THEN [nothing EXCEPT !.kind = conv.kind]
     ELSE IF IsBlank(conv.text) THEN nothing
     ELSE [kind |-> "payload",
           payload |-> [source_file |-> source, internal_path |-> member.name,
                        payload_type |-> "text", file_type |-> guess_file_type(member),
                        content |-> conv.text, cells |-> <<>>, table |-> "",
                        row_index |-> -1, engine |-> conv.engine,
                        modified |-> member.modified],
           engine |-> conv.engine]

\* a navigator that drops the empty text only
collect_text_payload_unstripped(source, member, extractor) ==
  LET stream == open_member(extractor, member.name)
      conv == ConvOf(member.name)
      nothing == [kind |-> "none", payload |-> NoOut, engine |-> ""]
  IN IF stream # "ok" THEN nothing
     ELSE IF conv.kind # "ok" THEN nothing
     ELSE IF conv.text = <<>> THEN nothing
     ELSE [kind |-> "payload",
           payload |-> [source_file |-> source, internal_path |-> member.name,
                        payload_type |-> "text", file_type |-> guess_file_type(member),
                        content |-> conv.text, cells |-> <<>>, table |-> "",
                        row_index |-> -1, engine |-> conv.engine,
                        modified |-> member.modified],
           engine |-> conv.engine]

\* _collect_text_payload(member): "payload" with the payload and engine, or
\* "none".
collect_text_payload(source, member, extractor) ==
  LET stream == open_member(extractor, member.name)
      conv == ConvOf(member.name)
      nothing == [kind |-> "none", payload |-> NoOut, engine |-> ""]
  IN IF stream # "ok" THEN nothing
     ELSE IF conv.kind = "MissingDependencyError" THEN nothing
     ELSE IF conv.kind # "ok" THEN nothing
     ELSE IF IsBlank(conv.text) THEN nothing
     ELSE [kind |-> "payload",
           payload |-> [source_file |-> source, internal_path |-> member.name,
                        payload_type |-> "text", file_type |-> guess_file_type(member),
                        content |-> conv.text, cells |-> <<>>, table |-> "",
                        row_index |-> -1, engine |-> conv.engine,
                        modified |-> member.modified],
           engine |-> conv.engine]

\* a reader that numbers the rows of a table from 1
DatabaseRowPayload_numbering_from_one(source, member, table, row_index) ==
  [source_file |-> source, internal_path |-> member.name,
   payload_type |-> "database_row", file_type |-> "database",
   content |-> <<>>,
   cells |-> normalize_row(IF row_index = 0 THEN table.columns ELSE <<>>,
                           table.rows[row_index + 1]),
   table |-> table.name, row_index |-> row_index + 1, engine |-> "",
   modified |-> member.modified]

\* _collect_database_rows: the payload of one DatabaseRow.  `columns` in
\* iter_rows is a generator (_list_columns yields) made once per table: the
\* zip of row 0 uses it up, so the zip of every later row has no column left
\* and its values are the empty mapping.
DatabaseRowPayload(source, member, table, row_index) ==
  [source_file |-> source, internal_path |-> member.name,
   payload_type |-> "database_row", file_type |-> "database",
   content |-> <<>>,
   cells |-> normalize_row(IF row_index = 0 THEN table.columns ELSE <<>>,
                           table.rows[row_index + 1]),
   table |-> table.name, row_index |-> row_index, engine |-> "",
   modified |-> member.modified]

\* A generator right after collect_payloads(plan, progress_callback) is
\* called: nothing has run yet.
NewGenerator(source, archive, planned, plan, cb, scratch, extractor) ==
  [source |-> source, archive |-> archive, planned |-> planned, plan |-> plan,
   cb |-> cb, phase |-> "start",
   di |-> 0, tbl |-> 0, row |-> 0, ti |-> 0, out |-> NoOut, exc |-> "",
   log |-> <<>>, scratch |-> scratch, extractor |-> extractor]

Finish(g) == [g EXCEPT !.phase = "done", !.out = NoOut]
Raise(g, exc) == [g EXCEPT !.phase = "raised", !.out = NoOut, !.exc = exc]
Logged(g, entry) == [g EXCEPT !.log = Append(g.log, entry)]

\* a navigator that reports no member it skips
Progress_without_skip(g, member, index, stage, engine) ==
  IF g.cb /\ stage # "skip"
  THEN Logged(g, LogEntry("event", member.name, index, Len(g.plan.textual_members),
                          stage, [NoOut EXCEPT !.engine = engine]))
  ELSE g

\* progress_callback(TextualProgressEvent(..)) when a callback is given
Progress(g, member, index, stage, engine) ==
  IF g.cb
  THEN Logged(g, LogEntry("event", member.name, index, Len(g.plan.textual_members),
                          stage, [NoOut EXCEPT !.engine = engine]))
  ELSE g

\* the exit of iter_rows' two `with` scopes: the connection is closed (when
\* one was opened) and the scratch file is unlinked
LeaveIterRows(g, member) ==
  [g EXCEPT !.scratch = materialize_cleanup(g.scratch, member.name)]

RECURSIVE TextLoop(_, _)
\* the loop over the textual members from the i-th on, up to the next yield
TextLoop(g, i) ==
  IF i > Len(g.plan.textual_members) THEN Finish(g)
  ELSE
    LET member == g.plan.textual_members[i]
        started == Logged(Progress(g, member, i, "start", ""),
                          LogEntry("attempt", member.name, i, 0, "", NoOut))
        result == collect_text_payload(g.source, member, g.extractor)
    IN IF result.kind = "payload"
       THEN [Logged(Progress(started, member, i, "done", result.engine),
                    LogEntry("yield", member.name, i, 0, "", result.payload))
             EXCEPT !.phase = "text", !.ti = i + 1, !.out = result.payload]
       ELSE IF result.kind = "none"
       THEN TextLoop(Progress(started, member, i, "skip", ""), i + 1)
       ELSE Raise(started, result.kind)

\* a navigator that reads the textual members only of an archive without
\* database members
TextPhase_without_databases(g) ==
  IF g.plan.textual_members # <<>> /\ g.plan.database_members = <<>>
  THEN TextLoop(g, 1) ELSE Finish(g)

\* `if textual_members:` and what follows
TextPhase(g) ==
  IF g.plan.textual_members # <<>> THEN TextLoop(g, 1) ELSE Finish(g)

RECURSIVE NextRow(_, _, _, _)
RECURSIVE NextTable(_, _, _)
RECURSIVE EnterDatabase(_, _)

\* iter_rows: `for row_index, row in enumerate(cursor)` of table t, at row r
NextRow(g, d, t, r) ==
  LET member == g.plan.database_members[d]
      table == DbOf(member.name).tables[t]
  IN IF ScanFailsAfter(member.name) = r
       THEN Raise(LeaveIterRows(g, member), "DatabaseError")
     ELSE IF r < Len(table.rows) /\ r = 0 /\ DbOf(member.name).fail = "columns"
       \* the columns are listed when the first row is zipped with them
       THEN Raise(LeaveIterRows(g, member), "OperationalError")
     ELSE IF r < Len(table.rows)
       THEN LET payload == DatabaseRowPayload(g.source, member, table, r)
            IN [Logged(g, LogEntry("yield", member.name, d, 0, "", payload))
                EXCEPT !.phase = "rows", !.di = d, !.tbl = t, !.row = r + 1,
                       !.out = payload]
     ELSE NextTable(g, d, t + 1)

\* iter_rows: `for table_name in tables`, at table t
NextTable(g, d, t) ==
  LET member == g.plan.database_members[d]
      db == DbOf(member.name)
  IN IF t > Len(db.tables) THEN EnterDatabase(LeaveIterRows(g, member), d + 1)
     ELSE NextRow(g, d, t, 0)

\* a navigator that goes on to the next database member when one cannot be
\* copied out or opened
EnterDatabase_skipping(g, d) ==
  IF d > Len(g.plan.database_members) THEN TextPhase(g)
  ELSE
    LET member == g.plan.database_members[d]
        db == DbOf(member.name)
        made == materialize_member(g.scratch, g.extractor, member.name)
        entered == [Logged(g, LogEntry("iter_rows", member.name, d, 0, "", NoOut))
                    EXCEPT !.scratch = made.scratch]
    IN IF ~made.ok THEN EnterDatabase(entered, d + 1)
       ELSE IF db.fail \in {"connect", "tables"}
         THEN EnterDatabase(LeaveIterRows(entered, member), d + 1)
       ELSE NextTable(entered, d, 1)

\* `for member in database_members: yield from self._collect_database_rows(member)`
\* at the d-th database member: iter_rows materializes it, opens the
\* connection and lists the tables
EnterDatabase(g, d) ==
  IF d > Len(g.plan.database_members) THEN TextPhase(g)
  ELSE
    LET member == g.plan.database_members[d]
        db == DbOf(member.name)
        made == materialize_member(g.scratch, g.extractor, member.name)
        entered == [Logged(g, LogEntry("iter_rows", member.name, d, 0, "", NoOut))
                    EXCEPT !.scratch = made.scratch]
    IN IF ~made.ok THEN Raise(entered, made.exc)
       ELSE IF db.fail = "connect" THEN Raise(LeaveIterRows(entered, member), "OperationalError")
       ELSE IF db.fail = "tables" THEN Raise(LeaveIterRows(entered, member), "DatabaseError")
       ELSE NextTable(entered, d, 1)

\* next(generator): collect_payloads runs from where it stands to its next
\* yield, its end or an exception
Resume(g) ==
  CASE g.phase = "start" ->
         \* `plan = plan or self.plan_processing()`
         LET made == IF g.planned THEN [ok |-> TRUE, exc |-> "", plan |-> g.plan]
                     ELSE plan_processing(g.archive)
             planned == [g EXCEPT !.planned = TRUE, !.plan = made.plan]
         IN IF ~made.ok THEN Raise(g, made.exc)
            ELSE IF made.plan.database_members # <<>> THEN EnterDatabase(planned, 1)
            ELSE TextPhase(planned)
    [] g.phase = "rows" -> NextRow(g, g.di, g.tbl, g.row)
    [] g.phase = "text" -> TextLoop(g, g.ti)
    [] OTHER -> g

\* ----------------------------------------------------------- run_pipeline
\* the parameters UFDRContentNavigator.__init__ takes besides self
NavigatorInitParameters == {"ufdr_path"}

\* the arguments process_file constructs the navigator with
ProcessFileArguments == {"ufdr_path", "allowed_extensions"}

\* UFDRContentNavigator(...): the exception the call raises, "" for none
navigator_init(arguments) ==
  IF arguments \subseteq NavigatorInitParameters THEN "" ELSE "TypeError"

\* a scan that locates a database match by the row's index in its table
run_regex_locating_in_table(patterns, payload) ==
  LET found == IF payload.payload_type = "database_row"
               THEN ScanRows(patterns, <<payload.cells>>, <<>>, payload.row_index,
                             ContextWindow)
               ELSE scan_text(patterns, payload.content, ContextWindow)
  IN [i \in 1..Len(found) |-> build_evidence_match(payload, found[i])]

\* _run_regex(regex_engine, payload)
run_regex(patterns, payload) ==
  LET found == IF payload.payload_type = "database_row"
               THEN scan_table(patterns, <<payload.cells>>, <<>>, ContextWindow)
               ELSE scan_text(patterns, payload.content, ContextWindow)
  IN [i \in 1..Len(found) |-> build_evidence_match(payload, found[i])]

\* a progress event of run_pipeline
Event(type, path, entry) == [type |-> type, path |-> path, detail |-> entry]
NoDetail == LogEntry("", "", 0, 0, "", NoOut)

\* emit(event) for the events the generator's callback received since `from`
ForwardedEvents(path, log, from) ==
  LET fresh == SelectSeq(SubSeq(log, from + 1, Len(log)), LAMBDA e : e.kind = "event")
  IN [i \in 1..Len(fresh) |-> Event("text-progress", path, fresh[i])]

\* the outcome of process_file: exc is the exception it raises ("" for none),
\* matches the reporter's records and events the events emitted when it ends
Outcome(exc, matches, events, scratch) ==
  [exc |-> exc, matches |-> matches, events |-> events, scratch |-> scratch]

RECURSIVE ConsumePayloads(_, _, _, _, _)

\* one turn of the loop: `next` is the generator after next(generator), `seen`
\* the length of its log before
ConsumeNext(next, seen, path, patterns, matches, events) ==
  IF next.phase = "raised"
    THEN Outcome(next.exc, matches, events \o ForwardedEvents(path, next.log, seen),
                 next.scratch)
  ELSE IF next.phase = "done"
    THEN Outcome("", matches,
                 Append(events \o ForwardedEvents(path, next.log, seen),
                        Event("ufdr-complete", path, NoDetail)),
                 next.scratch)
  ELSE ConsumePayloads(next, path, patterns, matches \o run_regex(patterns, next.out),
                       events \o ForwardedEvents(path, next.log, seen))

\* the `for payload in navigator.collect_payloads(..)` loop of process_file:
\* every payload is scanned and its matches go to the reporter
ConsumePayloads(g, path, patterns, matches, events) ==
  ConsumeNext(Resume(g), Len(g.log), path, patterns, matches, events)

\* process_file after the navigator is constructed: plan, emit "ufdr-start",
\* consume the payloads, emit "ufdr-complete"
ProcessPlanned(archive, path, patterns, matches, scratch) ==
  LET planned == plan_processing(archive)
  IN IF ~planned.ok THEN Outcome(planned.exc, matches, <<>>, scratch)
     ELSE ConsumePayloads(
            NewGenerator(path, archive, TRUE, planned.plan, TRUE, scratch, "UFDRExtractor"),
            path, patterns, matches,
            <<Event("ufdr-start", path,
                    [NoDetail EXCEPT !.total = Len(planned.plan.textual_members)])>>)

\* process_file(path)
process_file(path, archive, patterns, matches, scratch) ==
  IF navigator_init(ProcessFileArguments) # ""
    THEN Outcome(navigator_init(ProcessFileArguments), matches, <<>>, scratch)
  ELSE ProcessPlanned(archive, path, patterns, matches, scratch)

\* ------------------------------------------------- execute_with_resilience
\* a runner that keeps the first failure only
record_outcome_first_only(failures, item, exc) ==
  IF exc # "" /\ failures = <<>> THEN Append(failures, item) ELSE failures

\* the body of the loop for one item: the action's exception is caught and
\* the item recorded
record_outcome(failures, item, exc) ==
  IF exc # "" THEN Append(failures, item) ELSE failures

\* the fields of EvidenceMatch, in declaration order (also the header of the
\* tabular report)
FieldNames ==
  <<"source_file", "internal_path", "pattern_type", "match_value", "file_type",
    "context", "timestamp">>

\* the value of the field is None
IsNone(match, key) ==
  CASE key = "file_type" -> match.file_type = None
    [] key = "context" -> match.context = <<>>
    [] key = "timestamp" -> ~match.timestamp.present
    [] OTHER -> FALSE

\* the optional fields of a record that are not None
OptionalKeys(match) ==
  {key \in {"file_type", "context", "timestamp"} : ~IsNone(match, key)}

\* a record that keeps its None fields
to_dict_keeping_none(match) ==
  [key \in Range(FieldNames) |-> match[key]]

\* EvidenceMatch.to_dict(): the mapping of the fields with a value that is
\* not None
to_dict(match) ==
  [key \in {"source_file", "internal_path", "pattern_type", "match_value"}
            \cup OptionalKeys(match) |-> match[key]]

\* json.dump(data): the document is the list of the objects, each object the
\* key/value members of its mapping in insertion order
json_dump(data) ==
  [i \in 1..Len(data) |->
     LET keys == SelectSeq(FieldNames, LAMBDA key : key \in DOMAIN data[i])
     IN [k \in 1..Len(keys) |-> [key |-> keys[k], value |-> data[i][keys[k]]]]]

\* json.load of a document: one mapping per object
json_load(document) ==
  [i \in 1..Len(document) |->
     [key \in {document[i][k].key : k \in 1..Len(document[i])} |->
        LET k == CHOOSE k \in 1..Len(document[i]) :
                   /\ document[i][k].key = key
                   /\ \A later \in (k + 1)..Len(document[i]) : document[i][later].key # key
        IN document[i][k].value]]

\* the timestamped artifact paths run_pipeline derives from output_path
JsonPath(output_path) ==
  [dir |-> output_path.dir, stem |-> output_path.stem, stamp |-> "now",
   suffix |-> output_path.suffix]
CsvPath(output_path) ==
  [dir |-> output_path.dir, stem |-> output_path.stem, stamp |-> "now", suffix |-> ".csv"]

OutputPath == [dir |-> "outputs", stem |-> "prometheus_results", stamp |-> "", suffix |-> ".json"]

\* a reporter that writes no structured report when it holds no record
write_json_unless_empty(old, path, matches) ==
  IF matches = <<>> THEN old
  ELSE [path |-> path, writes |-> old.writes + 1,
        records |-> json_dump([i \in 1..Len(matches) |-> to_dict(matches[i])])]

NoArtifact == [path |-> OutputPath, writes |-> 0, records |-> <<>>]

\* _write_json: the artifact at the path is replaced by the dumped list of
\* the records' mappings
write_json(old, path, matches) ==
  [path |-> path, writes |-> old.writes + 1,
   records |-> json_dump([i \in 1..Len(matches) |-> to_dict(matches[i])])]

\* a reporter that writes the rows of the tabular report without the header
write_csv_without_header(old, path, matches) ==
  [path |-> path, writes |-> old.writes + 1,
   records |-> [i \in 1..Len(matches) |->
                  [k \in 1..Len(FieldNames) |->
                     IF IsNone(matches[i], FieldNames[k]) THEN ""
                     ELSE matches[i][FieldNames[k]]]]]

\* a reporter that adds its rows to the tabular report that is there
write_csv_appending(old, path, matches) ==
  [path |-> path, writes |-> old.writes + 1,
   records |-> old.records \o
               [i \in 1..Len(matches) |->
                  [k \in 1..Len(FieldNames) |->
                     IF IsNone(matches[i], FieldNames[k]) THEN ""
                     ELSE matches[i][FieldNames[k]]]]]

\* _write_csv: the artifact at the path is replaced by the header and one row
\* per record with a cell for every field, empty for None
write_csv(old, path, matches) ==
  [path |-> path, writes |-> old.writes + 1,
   records |-> <<FieldNames>> \o
               [i \in 1..Len(matches) |->
                  [k \in 1..Len(FieldNames) |->
                     IF IsNone(matches[i], FieldNames[k]) THEN ""
                     ELSE matches[i][FieldNames[k]]]]]

\* what write() is to put at the final path of an artifact, in the chunks
\* it is written in: one per object of the structured document, one per
\* line of the tabular one
DocumentOf(artifact, matches) ==
  IF artifact = "json" THEN write_json(NoArtifact, OutputPath, matches).records
  ELSE write_csv(NoArtifact, OutputPath, matches).records

\* a writer that puts every chunk straight into the file at the final path
write_chunk_in_place(final, temp, document) ==
  [final |-> [final EXCEPT !.records = SubSeq(document, 1, Len(temp.chunks) + 1),
                           !.writes = 1],
   temp |-> [temp EXCEPT !.chunks = SubSeq(document, 1, Len(temp.chunks) + 1)]]

\* json.dump / writer.writerow inside the `with NamedTemporaryFile` block: the
\* next chunk of the document goes to the temporary file, the file at the
\* final path stays as it is
write_chunk(final, temp, document) ==
  [final |-> final,
   temp |-> [temp EXCEPT !.chunks = SubSeq(document, 1, Len(temp.chunks) + 1)]]

\* os.replace(tmp_path, path): the temporary file becomes the file at path
replace(old, path, temp) ==
  [path |-> path, writes |-> old.writes + 1, records |-> temp.chunks]

\* ------------------------------------------------------------ the inputs
\* the archives under the input directory of a run_pipeline call
PipelineDisk ==
  [path \in {"sample.ufdr", "corrompido.ufdr", "mixed.ufdr", "partial.ufdr"} |->
     CASE path = "sample.ufdr" -> Zip(<<"r.txt">>)
       [] path = "corrompido.ufdr" -> NotZip
       [] path = "partial.ufdr" -> Zip(<<"scan.db", "r.txt">>)
       [] OTHER -> Zip(<<"data/messages.db", "r.txt", "blank.md">>)]

\* the items a caller hands to execute_with_resilience with an action that
\* raises for "boom"
RunnerItems == {"ok", "boom", "ok2"}

\* longer archives next to the generated ones
PickedArchives ==
  { Zip(<<"data/messages.db", "logs.SQLITE", "r.txt", "i.PNG">>),
    Zip(<<"r.txt", "d.db/", "logs.SQLITE", "a.bin", "blank.md", "i.PNG">>),
    Zip(<<"x.docx", "scan.pdf", "empty.csv", "lost.txt", "r.txt">>),
    Zip(<<"data/messages.db", "scan.db", "logs.SQLITE", "r.txt">>),
    Zip(<<"data/messages.db", "trunc.sqlite3", "r.txt">>) }

\* the archive a caller constructs a navigator for
NavigatorArchives ==
  {Zip(names) : names \in DistinctSeqs(MemberNames, MaxMembers)}
  \cup PickedArchives \cup {NotZip, Missing, Directory}

NoDisk == [path \in {} |-> NotZip]

PipelineInputs ==
  [entry : {"run_pipeline"}, config : Configs,
   root : {"directory", "file", "missing"},
   found : DistinctSeqs(DOMAIN PipelineDisk, MaxArchives), disk : {PipelineDisk},
   cb : BOOLEAN]

RunnerInputs ==
  [entry : {"execute_with_resilience"}, config : {File(NoPayload)}, root : {"directory"},
   found : AllSeqs(RunnerItems, MaxArchives), disk : {NoDisk}, cb : {FALSE}]

\* a caller builds a navigator over one archive and consumes collect_payloads;
\* extractor is the archive reader behind it: the class as it stands or a
\* reader that provides openMember
NavigatorInputs ==
  [entry : {"collect_payloads"}, config : {File(NoPayload)}, root : {"directory"},
   found : {<<"archive.ufdr">>},
   disk : {[path \in {"archive.ufdr"} |-> archive] : archive \in NavigatorArchives},
   extractor : {"UFDRExtractor", "openMember"},
   cb : BOOLEAN]

\* a caller loads a pattern file
ConfigInputs == [entry : {"from_config"}, config : ListConfigs \cup Configs]

\* the characters of the texts handed to scan_text
TextChars == {"k", "K", "9"}

\* the rules of the engines constructed directly
SampleRules ==
  { Rule("Email", <<"k">>, {"ignorecase"}), Rule("Phone", <<"9">>, {"multiline"}),
    Rule("Pair", <<"k", "k">>, {}), Rule("Any", <<>>, {}) }

\* the engines constructed directly: one rule at least, names unique
SampleEngines == DistinctSeqs(SampleRules, MaxRules) \ {<<>>}

\* a caller scans a text
ScanTextInputs ==
  [entry : {"scan_text"}, patterns : SampleEngines,
   text : AllSeqs(TextChars, MaxText), window : 0..MaxWindow]

\* the rows handed to scan_table: column/value items, one of them with a
\* value that is no string
SampleRows ==
  { <<>>,
    <<Cell("colA", <<"9">>)>>,
    <<Cell("colA", <<"k">>)>>,
    <<Cell("colA", <<"9">>), Cell("colB", <<"k", "k">>)>>,
    <<[column |-> "colA", str |-> FALSE, value |-> <<"k">>]>> }

\* a caller scans a table, without a column list (subset is FALSE and columns,
\* None in the call, is as false as the empty list) or with one
ScanTableInputs ==
  { call \in [entry : {"scan_table"}, patterns : SampleEngines,
              rows : AllSeqs(SampleRows, MaxRows), subset : BOOLEAN,
              columns : {<<>>, <<"colA">>, <<"colB", "colA">>},
              window : {ContextWindow}] :
      call.subset \/ call.columns = <<>> }

\* modification times of members: none, naive, and aware in three zones
SampleTimes ==
  { NoTime,
    [present |-> TRUE, aware |-> FALSE, clock |-> 60, offset |-> 0, z |-> FALSE],
    [present |-> TRUE, aware |-> TRUE, clock |-> 60, offset |-> 0, z |-> FALSE],
    [present |-> TRUE, aware |-> TRUE, clock |-> 60, offset |-> 120, z |-> FALSE],
    [present |-> TRUE, aware |-> TRUE, clock |-> 60, offset |-> -180, z |-> FALSE] }

\* the payloads handed to build_evidence_match: text and database-row
\* payloads, with and without a table and a row index in their metadata
SamplePayloads ==
  { [NoOut EXCEPT !.source_file = "case.ufdr", !.internal_path = "data/messages.db",
                  !.payload_type = type,
                  !.file_type = IF type = "text" THEN "document" ELSE "database",
                  !.table = table, !.row_index = row_index, !.modified = modified] :
      type \in {"text", "database_row"}, table \in {"", "contacts"},
      row_index \in {-1, 0, 12}, modified \in SampleTimes }

\* the matches handed to build_evidence_match: with and without location,
\* with an empty, a plain, a padded and a blank context
SampleMatches ==
  { [pattern |-> "Email", value |-> <<"k">>, start |-> 0, end |-> 1,
     context |-> context, location |-> location] :
      context \in {<<>>, <<"k">>, <<" ", "k", "\t">>, <<"k", " ", "9">>, <<" ">>,
                   <<"\n", "k", "\r", "\n">>},
      location \in {NoLocation, [row |-> 0, column |-> "colA"]} }

\* a caller builds an evidence record
BuildInputs == [entry : {"build"}, payload : SamplePayloads, match : SampleMatches]

\* the records a caller hands to a ResultReporter: without optional fields,
\* with all of them, and one that differs from the first in file_type only
SampleRecords ==
  { [source_file |-> "case.ufdr", internal_path |-> "r.txt", pattern_type |-> "Email",
     match_value |-> <<"k">>, file_type |-> None, context |-> <<>>, timestamp |-> NoTime],
    [source_file |-> "case.ufdr", internal_path |-> "r.txt", pattern_type |-> "Email",
     match_value |-> <<"k">>, file_type |-> "document", context |-> <<>>,
     timestamp |-> NoTime],
    [source_file |-> "case.ufdr", internal_path |-> "data/messages.db",
     pattern_type |-> "Phone", match_value |-> <<"9">>, file_type |-> "database",
     context |-> <<Piece("linha", "", 0, <<>>), Piece("context", "", 0, <<"9">>)>>,
     timestamp |-> format_timestamp(
                     [present |-> TRUE, aware |-> FALSE, clock |-> 60, offset |-> 0,
                      z |-> FALSE])] }

\* the payloads a caller hands to _run_regex: database-row payloads with a
\* table and a row index in their metadata and a mapping of columns to
\* strings as content, the empty one included, and two text payloads
RegexPayloads ==
  { [NoOut EXCEPT !.source_file = "case.ufdr", !.internal_path = "data/messages.db",
                  !.payload_type = "database_row", !.file_type = "database",
                  !.cells = cells, !.table = "messages", !.row_index = row_index] :
      cells \in {<<>>, <<Cell("body", <<"k">>)>>, <<Cell("body", <<"x">>)>>,
                 <<Cell("colA", <<"9">>), Cell("colB", <<"k", "k">>)>>},
      row_index \in {0, 1, 12} }
  \cup { [NoOut EXCEPT !.source_file = "case.ufdr", !.internal_path = "r.txt",
                       !.payload_type = "text", !.file_type = "document",
                       !.content = content] :
           content \in {<<"x", "k">>, <<"9", "\n", "k">>} }

\* a caller runs the rules over one payload
RunRegexInputs == [entry : {"run_regex"}, patterns : SampleEngines, payload : RegexPayloads]

\* a caller works with a ResultReporter of its own
ReporterInputs == [entry : {"reporter"}]

\* what an earlier write() of a reporter for the same paths left at the final
\* path of an artifact, if there was one
PreviousArtifact(previous, artifact) ==
  IF ~previous.present THEN NoArtifact
  ELSE IF artifact = "json" THEN write_json(NoArtifact, OutputPath, previous.records)
  ELSE write_csv(NoArtifact, [OutputPath EXCEPT !.suffix = ".csv"], previous.records)

\* a reporter holding records writes its reports, watched step by step:
\* with or without reports of an earlier write() in place, and with one
\* write into a temporary file that raises (the one after `at` chunks of
\* the artifact's file) or none (artifact "")
WriteInputs ==
  { call \in [entry : {"write"},
              previous : [present : BOOLEAN, records : AllSeqs(SampleRecords, 1)],
              records : AllSeqs(SampleRecords, MaxRecords),
              fault : [artifact : {"", "json", "csv"}, at : 0..MaxRecords]] :
      /\ call.previous.present \/ call.previous.records = <<>>
      /\ call.fault.artifact # "" \/ call.fault.at = 0 }

\* ------------------------------------------------------------- the state
VARIABLES
  input,     \* what the caller called and with what; never changes
  pc,        \* where the call stands
  items,     \* execute_with_resilience: the items
  idx,       \* execute_with_resilience: items done
  calls,     \* the action's invocations in order: the item and what it raised
  failures,  \* execute_with_resilience: the failed items
  patterns,  \* the rules of the loaded engine
  matches,   \* ResultReporter._matches
  events,    \* the events the progress callback of run_pipeline received
  scratch,   \* the scratch files on storage
  json,      \* the structured report artifact
  csv,       \* the tabular report artifact
  result,    \* what the call returned
  exc,       \* the exception the call raised, "" for none
  gen,       \* the generator collect_payloads returned
  tmp        \* the temporary file of a write(): the artifact it is for ("" for
             \* no file) and the chunks written into it

vars == <<input, pc, items, idx, calls, failures, patterns, matches, events,
          scratch, json, csv, result, exc, gen, tmp>>

NoResult ==
  [processed |-> -1, failures |-> <<>>, matches |-> -1, output |-> OutputPath,
   csv_output |-> OutputPath]

NoGenerator == [NewGenerator("", Missing, FALSE, NoPlan, FALSE, {}, "UFDRExtractor") EXCEPT !.phase = "none"]

Init ==
  /\ input \in PipelineInputs \cup RunnerInputs \cup NavigatorInputs
                \cup ConfigInputs \cup ScanTextInputs \cup ScanTableInputs
                \cup BuildInputs \cup RunRegexInputs \cup ReporterInputs
                \cup WriteInputs
  /\ pc = IF input.entry = "execute_with_resilience" THEN "loop" ELSE "start"
  /\ items = IF input.entry = "execute_with_resilience" THEN input.found ELSE <<>>
  /\ idx = 0
  /\ calls = <<>>
  /\ failures = <<>>
  /\ patterns = <<>>
  /\ matches = IF input.entry = "write" THEN input.records ELSE <<>>
  /\ events = <<>>
  /\ scratch = {}
  /\ json = IF input.entry = "write" THEN PreviousArtifact(input.previous, "json") ELSE NoArtifact
  /\ csv = IF input.entry = "write" THEN PreviousArtifact(input.previous, "csv") ELSE NoArtifact
  /\ result = NoResult
  /\ exc = ""
  /\ gen = NoGenerator
  /\ tmp = [artifact |-> "", chunks |-> <<>>]

\* run_pipeline, up to RegexEngine.from_config: the scanner and the reporter
\* are constructed and the pattern file is loaded
LoadPatterns ==
  /\ input.entry = "run_pipeline"
  /\ pc = "start"
  /\ LET engine == from_config(input.config)
     IN IF engine.ok
        THEN /\ patterns' = engine.rules
             /\ pc' = "loaded"
             /\ exc' = exc
        ELSE /\ patterns' = patterns
             /\ pc' = "raised"
             /\ exc' = engine.exc
  /\ UNCHANGED <<input, tmp, items, idx, calls, failures, matches, events, scratch,
                 json, csv, result, gen>>

\* run_pipeline: scanner.scan() and the list of paths.  validate_root raises
\* for a root that does not exist and for one that is no directory.
ScanInput ==
  /\ input.entry = "run_pipeline"
  /\ pc = "loaded"
  /\ IF input.root = "directory"
     THEN /\ items' = input.found
          /\ pc' = "loop"
          /\ exc' = exc
     ELSE /\ items' = items
          /\ pc' = "raised"
          /\ exc' = IF input.root = "missing" THEN "FileNotFoundError"
                    ELSE "NotADirectoryError"
  /\ UNCHANGED <<input, tmp, idx, calls, failures, patterns, matches, events, scratch,
                 json, csv, result, gen>>

\* the action of the test of execute_with_resilience
generic_action(item) == IF item = "boom" THEN "ValueError" ELSE ""

\* execute_with_resilience: one turn of `for item in items`, with the action
\* run to its end
RunnerStep ==
  /\ pc = "loop"
  /\ idx < Len(items)
  /\ \E done \in {IF input.entry = "run_pipeline"
                   THEN process_file(items[idx + 1], input.disk[items[idx + 1]],
                                     patterns, matches, scratch)
                   ELSE Outcome(generic_action(items[idx + 1]), matches, <<>>,
                                scratch)} :
        /\ calls' = Append(calls, [item |-> items[idx + 1], exc |-> done.exc])
        /\ failures' = record_outcome(failures, items[idx + 1], done.exc)
        /\ matches' = done.matches
        /\ events' = IF input.cb THEN events \o done.events ELSE events
        /\ scratch' = done.scratch
  /\ idx' = idx + 1
  /\ UNCHANGED <<input, tmp, pc, items, patterns, json, csv, result, exc, gen>>

\* execute_with_resilience returns to a caller other than run_pipeline
RunnerReturn ==
  /\ input.entry = "execute_with_resilience"
  /\ pc = "loop"
  /\ idx = Len(items)
  /\ pc' = "done"
  /\ result' = [NoResult EXCEPT !.failures = failures]
  /\ UNCHANGED <<input, tmp, items, idx, calls, failures, patterns, matches, events,
                 scratch, json, csv, exc, gen>>

\* run_pipeline: reporter.write() after the runner returned
WriteReports ==
  /\ input.entry = "run_pipeline"
  /\ pc = "loop"
  /\ idx = Len(items)
  /\ json' = write_json(json, JsonPath(OutputPath), matches)
  /\ csv' = write_csv(csv, CsvPath(OutputPath), matches)
  /\ pc' = "written"
  /\ UNCHANGED <<input, tmp, items, idx, calls, failures, patterns, matches, events,
                 scratch, result, exc, gen>>

\* run_pipeline: the summary it returns
ReturnSummary ==
  /\ input.entry = "run_pipeline"
  /\ pc = "written"
  /\ result' = [processed |-> Len(items), failures |-> failures,
                matches |-> Len(matches), output |-> json.path,
                csv_output |-> csv.path]
  /\ pc' = "done"
  /\ UNCHANGED <<input, tmp, items, idx, calls, failures, patterns, matches, events,
                 scratch, json, csv, exc, gen>>

\* a caller constructs UFDRContentNavigator(path) and calls collect_payloads
\* without a plan: the call returns the generator and runs nothing of its
\* body, the plan is made by the first next()
NavigatorStart ==
  /\ input.entry = "collect_payloads"
  /\ pc = "start"
  /\ LET path == input.found[1]
     IN IF navigator_init({"ufdr_path"}) # ""
        THEN /\ pc' = "raised"
             /\ exc' = navigator_init({"ufdr_path"})
             /\ gen' = gen
        ELSE /\ pc' = "iterating"
             /\ exc' = exc
             /\ gen' = NewGenerator(path, input.disk[path], FALSE, NoPlan, input.cb,
                                    scratch, input.extractor)
  /\ UNCHANGED <<input, tmp, items, idx, calls, failures, patterns, matches, events,
                 scratch, json, csv, result>>

\* the caller's next(generator)
NavigatorNext ==
  /\ input.entry = "collect_payloads"
  /\ pc = "iterating"
  /\ gen' = Resume(gen)
  /\ pc' = CASE gen'.phase = "done" -> "done"
             [] gen'.phase = "raised" -> "raised"
             [] OTHER -> "iterating"
  /\ exc' = gen'.exc
  /\ scratch' = gen'.scratch
  /\ UNCHANGED <<input, tmp, items, idx, calls, failures, patterns, matches, events,
                 json, csv, result>>

\* a caller's RegexEngine.from_config(config_path): the engine's rules, or
\* the exception
FromConfig ==
  /\ input.entry = "from_config"
  /\ pc = "start"
  /\ LET engine == from_config(input.config)
     IN IF engine.ok
        THEN /\ patterns' = engine.rules
             /\ pc' = "done"
             /\ exc' = exc
        ELSE /\ patterns' = patterns
             /\ pc' = "raised"
             /\ exc' = engine.exc
  /\ UNCHANGED <<input, tmp, items, idx, calls, failures, matches, events, scratch,
                 json, csv, result, gen>>

\* a caller's engine.scan_text(text, context_window=window)
ScanText ==
  /\ input.entry = "scan_text"
  /\ pc = "start"
  /\ patterns' = input.patterns
  /\ result' = [value |-> scan_text(input.patterns, input.text, input.window)]
  /\ pc' = "done"
  /\ UNCHANGED <<input, tmp, items, idx, calls, failures, matches, events, scratch,
                 json, csv, exc, gen>>

\* a caller's engine.scan_table(rows, columns=columns)
ScanTable ==
  /\ input.entry = "scan_table"
  /\ pc = "start"
  /\ patterns' = input.patterns
  /\ result' = [value |-> scan_table(input.patterns, input.rows, input.columns,
                                     input.window)]
  /\ pc' = "done"
  /\ UNCHANGED <<input, tmp, items, idx, calls, failures, matches, events, scratch,
                 json, csv, exc, gen>>

\* a caller's build_evidence_match(payload, regex_match)
Build ==
  /\ input.entry = "build"
  /\ pc = "start"
  /\ result' = [value |-> build_evidence_match(input.payload, input.match)]
  /\ pc' = "done"
  /\ UNCHANGED <<input, tmp, items, idx, calls, failures, patterns, matches, events,
                 scratch, json, csv, exc, gen>>

\* a caller's _run_regex(regex_engine, payload)
RunRegex ==
  /\ input.entry = "run_regex"
  /\ pc = "start"
  /\ patterns' = input.patterns
  /\ result' = [value |-> run_regex(input.patterns, input.payload)]
  /\ pc' = "done"
  /\ UNCHANGED <<input, tmp, items, idx, calls, failures, matches, events, scratch,
                 json, csv, exc, gen>>

\* reporter.add_match(match)
AddMatch ==
  /\ input.entry = "reporter"
  /\ idx < MaxOps
  /\ \E match \in SampleRecords :
       /\ matches' = Append(matches, match)
       /\ calls' = Append(calls, match)
  /\ events' = Append(events, "add_match")
  /\ idx' = idx + 1
  /\ pc' = "open"
  /\ UNCHANGED <<input, tmp, items, failures, patterns, scratch, json, csv,
                 result, exc, gen>>

\* reporter.extend_matches(matches): no record, two records, the same record
\* twice
ExtendMatches ==
  /\ input.entry = "reporter"
  /\ idx < MaxOps
  /\ \E first \in SampleRecords : \E second \in SampleRecords :
       \E batch \in {<<>>, <<first, second>>} :
         /\ matches' = matches \o batch
         /\ calls' = calls \o batch
  /\ events' = Append(events, "extend_matches")
  /\ idx' = idx + 1
  /\ pc' = "open"
  /\ UNCHANGED <<input, tmp, items, failures, patterns, scratch, json, csv,
                 result, exc, gen>>

\* reporter.clear()
Clear ==
  /\ input.entry = "reporter"
  /\ idx < MaxOps
  /\ matches' = <<>>
  /\ calls' = <<>>
  /\ events' = Append(events, "clear")
  /\ idx' = idx + 1
  /\ pc' = "open"
  /\ UNCHANGED <<input, tmp, items, failures, patterns, scratch, json, csv,
                 result, exc, gen>>

\* reporter.write(): both artifacts are written from the records held; the
\* call returns their paths
Write ==
  /\ input.entry = "reporter"
  /\ idx < MaxOps
  /\ json' = write_json(json, OutputPath, matches)
  /\ csv' = write_csv(csv, [OutputPath EXCEPT !.suffix = ".csv"], matches)
  /\ result' = [value |-> [json |-> OutputPath,
                           csv |-> [OutputPath EXCEPT !.suffix = ".csv"]]]
  /\ events' = Append(events, "write")
  /\ idx' = idx + 1
  /\ pc' = "written"
  /\ UNCHANGED <<input, tmp, items, calls, failures, patterns, matches, scratch,
                 exc, gen>>

\* write(), step 1 of an artifact: NamedTemporaryFile(delete=False) in the
\* destination directory, for the structured report first and for the
\* tabular one once the structured one is in place
CreateTemp ==
  /\ input.entry = "write"
  /\ pc \in {"start", "replaced"}
  /\ tmp' = [artifact |-> IF pc = "start" THEN "json" ELSE "csv", chunks |-> <<>>]
  /\ pc' = "dumping"
  /\ UNCHANGED <<input, items, idx, calls, failures, patterns, matches, events,
                 scratch, json, csv, result, exc, gen>>

\* write(), step 2: the next chunk is written to the temporary file, or the
\* write raises, the `with` block closes the file and leaves it where it is,
\* and write() ends with the exception
WriteChunk ==
  /\ input.entry = "write"
  /\ pc = "dumping"
  /\ Len(tmp.chunks) < Len(DocumentOf(tmp.artifact, matches))
  /\ IF input.fault.artifact = tmp.artifact /\ input.fault.at = Len(tmp.chunks)
     THEN /\ pc' = "raised"
          /\ exc' = IF tmp.artifact = "json" THEN "TypeError" ELSE "OSError"
          /\ UNCHANGED <<tmp, json, csv>>
     ELSE /\ LET final == IF tmp.artifact = "json" THEN json ELSE csv
                 step == write_chunk(final, tmp, DocumentOf(tmp.artifact, matches))
             IN /\ tmp' = step.temp
                /\ json' = IF tmp.artifact = "json" THEN step.final ELSE json
                /\ csv' = IF tmp.artifact = "csv" THEN step.final ELSE csv
          /\ UNCHANGED <<pc, exc>>
  /\ UNCHANGED <<input, items, idx, calls, failures, patterns, matches, events,
                 scratch, result, gen>>

\* write(), step 3: the document is complete, the temporary file is closed
\* and renamed over the final path; after the tabular one write() returns
\* the two paths
ReplaceFinal ==
  /\ input.entry = "write"
  /\ pc = "dumping"
  /\ Len(tmp.chunks) = Len(DocumentOf(tmp.artifact, matches))
  /\ IF tmp.artifact = "json"
     THEN /\ json' = replace(json, OutputPath, tmp)
          /\ pc' = "replaced"
          /\ UNCHANGED <<csv, result>>
     ELSE /\ csv' = replace(csv, [OutputPath EXCEPT !.suffix = ".csv"], tmp)
          /\ pc' = "written"
          /\ result' = [value |-> [json |-> OutputPath,
                                   csv |-> [OutputPath EXCEPT !.suffix = ".csv"]]]
          /\ UNCHANGED json
  /\ tmp' = [artifact |-> "", chunks |-> <<>>]
  /\ UNCHANGED <<input, items, idx, calls, failures, patterns, matches, events,
                 scratch, exc, gen>>

Next ==
  \/ LoadPatterns
  \/ ScanInput
  \/ RunnerStep
  \/ RunnerReturn
  \/ WriteReports
  \/ ReturnSummary
  \/ NavigatorStart
  \/ NavigatorNext
  \/ FromConfig
  \/ ScanText
  \/ ScanTable
  \/ Build
  \/ RunRegex
  \/ AddMatch
  \/ ExtendMatches
  \/ Clear
  \/ Write
  \/ CreateTemp
  \/ WriteChunk
  \/ ReplaceFinal

Spec == Init /\ [][Next]_vars

\* ================================================================ claims
IsPipeline == input.entry = "run_pipeline"
IsRunner == input.entry = "execute_with_resilience"
IsNavigator == input.entry = "collect_payloads"
IsFromConfig == input.entry = "from_config"
IsScanText == input.entry = "scan_text"
IsScanTable == input.entry = "scan_table"
IsBuild == input.entry = "build"
IsReporter == input.entry = "reporter"
IsRunRegex == input.entry = "run_regex"
IsWrite == input.entry = "write"

\* the items of the invocations, and those of the invocations that raised
CalledItems == [i \in 1..Len(calls) |-> calls[i].item]
RaisedCalls == SelectSeq(calls, LAMBDA c : c.exc # "")
RaisedItems == [i \in 1..Len(RaisedCalls) |-> RaisedCalls[i].item]

\* C1: the runner invokes the action on every item exactly once and in order,
\* whether or not earlier items failed; the failures are exactly the items
\* whose action raised, in order; no exception of the action leaves the runner.
C1_RunnerIsolation ==
  (IsPipeline \/ IsRunner) =>
    /\ CalledItems = SubSeq(items, 1, idx)
    /\ failures = RaisedItems
    /\ pc = "done" => /\ CalledItems = items
                      /\ result.failures = RaisedItems
    /\ pc = "raised" => calls = <<>>
    /\ calls # <<>> => exc = ""

\* C1 witness: a run that ended after an item failed and a later one did not
C1_Witness ==
  /\ IsRunner
  /\ pc = "done"
  /\ Len(calls) = 2
  /\ calls[1].exc # ""
  /\ calls[2].exc = ""
  /\ failures = <<calls[1].item>>

\* C2 (as claimed): with one valid and one corrupt archive, the summary has
\* processed = 2, the corrupt path as its only failure, and records of the
\* valid archive only.
C2_ValidAndCorrupt ==
  (/\ IsPipeline
   /\ pc = "done"
   /\ Len(items) = 2
   /\ Range(items) = {"sample.ufdr", "corrompido.ufdr"})
  => /\ result.processed = 2
     /\ result.failures = <<"corrompido.ufdr">>
     /\ result.matches > 0
     /\ \A i \in 1..Len(matches) : matches[i].source_file = "sample.ufdr"

\* C3: once the pattern file loaded and the input directory was scanned,
\* run_pipeline neither raises nor stops before it returns; both artifacts are
\* written once, after the last archive was attempted, and the summary counts
\* every archive.
C3_AlwaysReports ==
  (IsPipeline /\ from_config(input.config).ok /\ input.root = "directory") =>
    /\ pc # "raised"
    /\ pc = "done" \/ ENABLED Next
    /\ json.writes <= 1 /\ csv.writes <= 1
    /\ json.writes = csv.writes
    /\ json.writes = 1 => /\ idx = Len(items)
                         /\ CalledItems = items
    /\ pc \in {"written", "done"} <=> json.writes = 1
    /\ pc = "done" => /\ result.processed = Len(items)
                      /\ result.output = json.path
                      /\ result.csv_output = csv.path

\* C3 witness: a run over two archives that both failed returned its summary
\* with the reports written
C3_Witness ==
  /\ IsPipeline
  /\ pc = "done"
  /\ Len(items) = 2
  /\ Len(failures) = 2
  /\ json.writes = 1
  /\ csv.writes = 1

\* C4: with a pattern file that is missing, unreadable, empty or malformed,
\* run_pipeline raises before anything else happens: no archive is attempted,
\* no event emitted, no artifact written.
C4_BadConfigAborts ==
  (IsPipeline /\ input.config \in BadConfigs) =>
    /\ pc \in {"start", "raised"}
    /\ pc = "raised" => exc # ""
    /\ items = <<>>
    /\ calls = <<>>
    /\ events = <<>>
    /\ json.writes = 0
    /\ csv.writes = 0
    /\ result = NoResult

\* C4 witness: a run with archives to find raised on a list with an entry
\* that has no name
C4_Witness ==
  /\ IsPipeline
  /\ input.config = File(Bare(<<EmailEntry, NoNameEntry>>))
  /\ input.root = "directory"
  /\ Len(input.found) = 2
  /\ pc = "raised"
  /\ exc = "ValueError"


\* what the generator logged, by kind
Attempts == SelectSeq(gen.log, LAMBDA e : e.kind = "attempt")
IterRows == SelectSeq(gen.log, LAMBDA e : e.kind = "iter_rows")
RowYields ==
  SelectSeq(gen.log, LAMBDA e : e.kind = "yield" /\ e.payload.payload_type = "database_row")
TextYields ==
  SelectSeq(gen.log, LAMBDA e : e.kind = "yield" /\ e.payload.payload_type = "text")
AttemptNames == [i \in 1..Len(Attempts) |-> Attempts[i].name]
TextualNames ==
  [i \in 1..Len(gen.plan.textual_members) |-> gen.plan.textual_members[i].name]
RowTriples ==
  [i \in 1..Len(RowYields) |->
     <<RowYields[i].payload.internal_path, RowYields[i].payload.table,
       RowYields[i].payload.row_index>>]

\* the rows stored in database members, member by member, table by table
RECURSIVE RowsOfTables(_, _)
RowsOfTables(name, tables) ==
  IF tables = <<>> THEN <<>>
  ELSE [r \in 1..Len(Head(tables).rows) |-> <<name, Head(tables).name, r - 1>>]
       \o RowsOfTables(name, Tail(tables))
RECURSIVE RowsOfMembers(_)
RowsOfMembers(members) ==
  IF members = <<>> THEN <<>>
  ELSE RowsOfTables(Head(members).name, DbOf(Head(members).name).tables)
       \o RowsOfMembers(Tail(members))

\* a database member that cannot be copied out, opened or queried
FailingDb(name) == open_member(gen.extractor, name) # "ok" \/ DbOf(name).fail # "none"
AllReadable == \A i \in 1..Len(gen.plan.database_members) :
                 ~FailingDb(gen.plan.database_members[i].name)
GeneratorEnded == gen.phase \in {"done", "raised"}

\* C5 (as claimed): once iter_rows for a member has ended, however it ended,
\* the scratch file made for the member is gone.
C5_ScratchRemoved ==
  IsNavigator =>
    /\ gen.phase \in {"done", "raised", "text"} => scratch = {}
    /\ gen.phase = "rows" => scratch \subseteq {gen.plan.database_members[gen.di].name}

\* nothing of the database phase follows anything of the textual phase
DatabaseBeforeText ==
  \A i \in 1..Len(gen.log) : \A j \in 1..Len(gen.log) :
    (/\ i < j
     /\ \/ gen.log[i].kind \in {"attempt", "event"}
        \/ gen.log[i].kind = "yield" /\ gen.log[i].payload.payload_type = "text")
    => /\ gen.log[j].kind # "iter_rows"
       /\ gen.log[j].kind = "yield" => gen.log[j].payload.payload_type = "text"

\* C6 (as claimed): for any plan, every row of every database member is
\* yielded before the first textual member, and every textual member is then
\* attempted once, in plan order.
C6_DatabaseThenText ==
  (IsNavigator /\ gen.planned /\ GeneratorEnded) =>
    /\ DatabaseBeforeText
    /\ RowTriples = RowsOfMembers(gen.plan.database_members)
    /\ AttemptNames = TextualNames

\* C6 (amended): the same for any plan whose database members can all be
\* read; the order of the two phases holds for every plan at every moment.
C6_DatabaseThenTextWhenReadable ==
  IsNavigator =>
    /\ DatabaseBeforeText
    /\ (gen.planned /\ GeneratorEnded /\ AllReadable) =>
         /\ gen.phase = "done"
         /\ RowTriples = RowsOfMembers(gen.plan.database_members)
         /\ AttemptNames = TextualNames

\* C6 witness: a generator ended after rows of two database members and two
\* textual members
C6_Witness ==
  /\ IsNavigator
  /\ gen.phase = "done"
  /\ Len(IterRows) = 2
  /\ Len(RowYields) >= 2
  /\ Len(Attempts) = 2

\* a textual member whose conversion signals a missing capability, raises or
\* returns blank text
SoftMember(name) ==
  \/ open_member(gen.extractor, name) # "ok"
  \/ ConvOf(name).kind # "ok"
  \/ IsBlank(ConvOf(name).text)

\* C7: a textual member that fails softly yields nothing and is no error of
\* the generator: the next member is attempted, or the generator ends normally
\* when it was the last.
C7_SoftFailuresSkip ==
  IsNavigator =>
    /\ Attempts # <<>> => gen.phase # "raised"
    /\ \A i \in 1..Len(Attempts) :
         SoftMember(Attempts[i].name) =>
           /\ \A k \in 1..Len(TextYields) : TextYields[k].index # Attempts[i].index
           /\ IF Attempts[i].index < Len(gen.plan.textual_members)
              THEN Len(Attempts) > i
              ELSE gen.phase = "done"

\* C7 witness: a generator that skipped a member for each kind of soft
\* failure and then yielded the text of a later member
C7_Witness ==
  /\ IsNavigator
  /\ AttemptNames = <<"x.docx", "scan.pdf", "empty.csv", "lost.txt", "r.txt">>
  /\ Len(TextYields) = 1
  /\ TextYields[1].name = "r.txt"

\* C8: no text payload the navigator yields is empty or only whitespace.
C8_NoBlankText ==
  /\ \A k \in 1..Len(TextYields) : ~IsBlank(TextYields[k].payload.content)
  /\ gen.out.payload_type = "text" => ~IsBlank(gen.out.content)

\* C8 witness: a generator that was given whitespace by one conversion and
\* yielded the text of another
C8_Witness ==
  /\ IsNavigator
  /\ \E i \in 1..Len(Attempts) :
       /\ ConvOf(Attempts[i].name).kind = "ok"
       /\ ConvOf(Attempts[i].name).text # <<>>
       /\ IsBlank(ConvOf(Attempts[i].name).text)
  /\ TextYields # <<>>

\* C9: a database member that cannot be opened or queried ends the archive:
\* no later database member is entered and no textual member attempted, the
\* generator raises; the runner lists every archive whose processing raised
\* and goes on to the archives after it.
C9_DatabaseFailureAborts ==
  /\ IsNavigator =>
       /\ \A i \in 1..Len(IterRows) : FailingDb(IterRows[i].name) =>
            /\ i = Len(IterRows)
            /\ Attempts = <<>>
            /\ gen.phase \in {"rows", "raised"}
       /\ gen.phase = "done" => AllReadable
       /\ gen.phase = "raised" => (pc = "raised" /\ exc # "")
       /\ (gen.planned /\ gen.phase = "raised") =>
            FailingDb(IterRows[Len(IterRows)].name)
  /\ IsPipeline =>
       /\ \A i \in 1..Len(calls) :
            calls[i].exc # "" => \E k \in 1..Len(failures) : failures[k] = calls[i].item
       /\ calls # <<>> => pc # "raised"
       /\ pc = "done" => CalledItems = items

\* C9 witness: a generator that raised in its second database member, after
\* rows of the first, with a textual member left unattempted
C9_Witness ==
  /\ IsNavigator
  /\ gen.phase = "raised"
  /\ Len(IterRows) = 2
  /\ RowYields # <<>>
  /\ gen.plan.textual_members # <<>>
  /\ Attempts = <<>>

\* C10 (as claimed): the archive reader gives the consumers of a member a
\* readable byte stream of it.  iter_rows does not fail on a database member
\* whose bytes the archive holds whole and whose database is sound, a textual
\* member whose bytes the archive holds whole and whose conversion gives text
\* has that text yielded, and nothing ends in an error of the reader itself.
C10_StreamScoped ==
  IsNavigator =>
    /\ exc # "AttributeError"
    /\ \A i \in 1..Len(IterRows) :
         (/\ openMember(IterRows[i].name) = "ok"
          /\ DbOf(IterRows[i].name).fail = "none") =>
           ~(gen.phase = "raised" /\ i = Len(IterRows))
    /\ \A i \in 1..Len(Attempts) :
         (/\ openMember(Attempts[i].name) = "ok"
          /\ ~IsBlank(ConvOf(Attempts[i].name).text)) =>
           \E k \in 1..Len(TextYields) :
              TextYields[k].payload.internal_path = Attempts[i].name


\* the entries of the list of a wrapped or bare pattern file
ListedEntries ==
  IF IsFromConfig /\ input.config.file = "ok" THEN input.config.payload.entries ELSE <<>>
Loaded == pc \in {"done", "raised"}

\* an entry whose flags name a flag outside the table, as one string or as
\* an element of a list
NamesUnknownFlag(entry) ==
  \/ /\ entry.flags.t = "str"
     /\ entry.flags.s # ""
     /\ Lower(entry.flags.s) \notin FLAG_TABLE
  \/ /\ entry.flags.t = "list"
     /\ \E i \in 1..Len(entry.flags.l) :
          entry.flags.l[i].t = "str" /\ Lower(entry.flags.l[i].s) \notin FLAG_TABLE

\* C11 (as claimed): a pattern list with an entry that names an unknown flag,
\* as a string or in a list, does not load: from_config raises and returns no
\* engine.
C11_UnknownFlagFails ==
  (IsFromConfig /\ Loaded /\ \E i \in 1..Len(ListedEntries) : NamesUnknownFlag(ListedEntries[i]))
  => /\ pc = "raised"
     /\ exc # ""
     /\ patterns = <<>>

\* an entry whose flags are present and neither a string nor a list of strings
HasInvalidFlagType(entry) ==
  \/ entry.flags.t \in {"num", "bool", "object"}
  \/ /\ entry.flags.t = "list"
     /\ \E i \in 1..Len(entry.flags.l) : entry.flags.l[i].t # "str"

\* an entry that has no name or no expression
LacksNameOrExpression(entry) ==
  /\ entry.mapping
  /\ \/ entry.name.t = "absent"
     \/ entry.regex.t = "absent" /\ entry.pattern.t = "absent"

\* C12 (as claimed): a pattern list with an otherwise complete entry whose
\* flags are a number, a boolean, an object or a list with an element that is
\* no string does not load: from_config raises the error of a bad flags value.
C12_InvalidFlagTypeFails ==
  (/\ IsFromConfig
   /\ Loaded
   /\ Len(ListedEntries) = 1
   /\ HasInvalidFlagType(ListedEntries[1])
   /\ ~LacksNameOrExpression(ListedEntries[1]))
  => /\ pc = "raised"
     /\ exc = "ValueError"
     /\ patterns = <<>>

\* C13 (as claimed): a wrapped or bare pattern list with an entry without a
\* name or without an expression does not load, wherever the entry stands:
\* from_config raises the error of a malformed entry and no rule is kept.
C13_MalformedPatternError ==
  (IsFromConfig /\ Loaded) =>
    \A i \in 1..Len(ListedEntries) :
      LacksNameOrExpression(ListedEntries[i]) =>
        /\ pc = "raised"
        /\ exc = "ValueError"
        /\ patterns = <<>>

\* the first entry of the list that _pattern_from_mapping does not build
FirstUnloadable ==
  CHOOSE k \in 1..Len(ListedEntries) :
    /\ ~pattern_from_mapping(ListedEntries[k]).ok
    /\ \A j \in 1..(k - 1) : pattern_from_mapping(ListedEntries[j]).ok

\* C13 (amended): a wrapped or bare pattern list with an entry without a name
\* or without an expression does not load, wherever the entry stands:
\* from_config raises and no rule of the other entries is kept.  The error is
\* that of the first entry of the list that cannot be built: the error of a
\* malformed entry when every entry before the malformed one is sound, the
\* earlier entry's own error (that of an expression that does not compile,
\* for one) otherwise.
C13_MalformedEntryFails ==
  (IsFromConfig /\ Loaded) =>
    \A i \in 1..Len(ListedEntries) :
      LacksNameOrExpression(ListedEntries[i]) =>
        /\ pc = "raised"
        /\ patterns = <<>>
        /\ ~from_config(input.config).ok
        /\ from_config(input.config).rules = <<>>
        /\ exc = pattern_from_mapping(ListedEntries[FirstUnloadable]).exc
        /\ (\A k \in 1..(i - 1) : pattern_from_mapping(ListedEntries[k]).ok)
             => exc = "ValueError"

\* C13 witness: a wrapped list whose second entry has no expression, after
\* an entry that is complete, raised the error of a malformed entry
C13_Witness ==
  /\ IsFromConfig
  /\ input.config = File(Wrapped(<<EmailEntry, NoRegexEntry>>))
  /\ pc = "raised"
  /\ exc = "ValueError"
  /\ patterns = <<>>


\* the matches scan_text returned, and the place of a match's rule in the
\* engine
Found == IF IsScanText /\ pc = "done" THEN result.value ELSE <<>>
RuleIndex(name) == CHOOSE r \in 1..Len(input.patterns) : input.patterns[r].name = name

\* C14: scan_text returns the matches rule by rule in declaration order and,
\* within a rule, by increasing start; every match is an occurrence of its
\* rule, and every occurrence of a rule is returned once or overlaps a match
\* of the rule that begins before it.
C14_RuleThenOffsetOrder ==
  (IsScanText /\ pc = "done") =>
    /\ \A i \in 1..Len(Found) : \A j \in 1..Len(Found) :
         i < j =>
           \/ RuleIndex(Found[i].pattern) < RuleIndex(Found[j].pattern)
           \/ /\ Found[i].pattern = Found[j].pattern
              /\ Found[i].start < Found[j].start
              /\ Found[i].end <= Found[j].start \/ Found[i].end = Found[i].start
    /\ \A i \in 1..Len(Found) :
         LET rule == input.patterns[RuleIndex(Found[i].pattern)]
         IN /\ MatchesAt(rule, input.text, Found[i].start + 1)
            /\ Found[i].end = Found[i].start + Len(rule.expression)
            /\ Found[i].value = Slice(input.text, Found[i].start, Found[i].end)
    /\ \A r \in 1..Len(input.patterns) : \A p \in 0..Len(input.text) :
         MatchesAt(input.patterns[r], input.text, p + 1) =>
           \E i \in 1..Len(Found) :
             /\ Found[i].pattern = input.patterns[r].name
             /\ Found[i].start = p \/ (Found[i].start < p /\ p < Found[i].end)

\* C14 witness: a match of the second rule lies before a match of the first
\* rule in the text and after it in the result
C14_Witness ==
  /\ IsScanText
  /\ pc = "done"
  /\ \E i \in 1..Len(Found) : \E j \in 1..Len(Found) :
       /\ i < j
       /\ RuleIndex(Found[i].pattern) = 1
       /\ RuleIndex(Found[j].pattern) = 2
       /\ Found[j].end <= Found[i].start

\* C15: the context of a match holds min(w, start) characters before the
\* match, the match, and min(w, len - end) characters after it, all of them
\* the characters of the text at those places.
C15_ContextClamped ==
  (IsScanText /\ pc = "done") =>
    \A i \in 1..Len(Found) :
      LET before == Min(input.window, Found[i].start)
          after == Min(input.window, Len(input.text) - Found[i].end)
          context == Found[i].context
      IN /\ Len(context) = before + (Found[i].end - Found[i].start) + after
         /\ \A k \in 1..Len(context) :
              /\ Found[i].start - before + k \in 1..Len(input.text)
              /\ context[k] = input.text[Found[i].start - before + k]

\* C15 witness: a match with more text before it than the window and less
\* after it
C15_Witness ==
  /\ IsScanText
  /\ pc = "done"
  /\ input.window > 0
  /\ \E i \in 1..Len(Found) :
       /\ Found[i].start > input.window
       /\ Found[i].end < Len(input.text)
       /\ Len(input.text) - Found[i].end < input.window


\* the matches scan_table returned
FoundInTable == IF IsScanTable /\ pc = "done" THEN result.value ELSE <<>>

\* the text scan_table scans for column `name` of the row at ordinal i: the
\* row's string value, or "" for a column that was asked for and is absent
ScannedTexts(i, name) ==
  LET row == input.rows[i + 1]
      present == {k \in 1..Len(row) : row[k].column = name}
  IN IF present # {} THEN {row[k].value : k \in {n \in present : row[n].str}}
     ELSE IF \E c \in 1..Len(input.columns) : input.columns[c] = name THEN {<<>>}
     ELSE {}

\* C16: every match of scan_table is located by the zero-based ordinal of its
\* row in the rows supplied and by the name of its column, and is an
\* occurrence in that cell; the rows appear in order, and every occurrence in
\* a scanned cell is reported under its row's ordinal, whatever the rows
\* before it held.
C16_RowOrdinalLocation ==
  (IsScanTable /\ pc = "done") =>
    /\ \A m \in 1..Len(FoundInTable) :
         LET match == FoundInTable[m]
             rule == input.patterns[RuleIndex(match.pattern)]
         IN /\ match.location # NoLocation
            /\ match.location.row \in 0..(Len(input.rows) - 1)
            /\ \E text \in ScannedTexts(match.location.row, match.location.column) :
                 /\ MatchesAt(rule, text, match.start + 1)
                 /\ match.value = Slice(text, match.start, match.end)
    /\ \A m \in 1..Len(FoundInTable) : \A n \in 1..Len(FoundInTable) :
         m < n => FoundInTable[m].location.row <= FoundInTable[n].location.row
    /\ \A i \in 0..(Len(input.rows) - 1) :
         \A name \in {"colA", "colB"} : \A text \in ScannedTexts(i, name) :
           (input.columns = <<>> \/ \E c \in 1..Len(input.columns) : input.columns[c] = name)
           => \A r \in 1..Len(input.patterns) : \A p \in 0..Len(text) :
                MatchesAt(input.patterns[r], text, p + 1) =>
                  \E m \in 1..Len(FoundInTable) :
                    /\ FoundInTable[m].location = [row |-> i, column |-> name]
                    /\ FoundInTable[m].pattern = input.patterns[r].name
                    /\ \/ FoundInTable[m].start = p
                       \/ FoundInTable[m].start < p /\ p < FoundInTable[m].end

\* C16 witness: the only match comes from the second row, after a row
\* without a match, and carries row=1
C16_Witness ==
  /\ IsScanTable
  /\ pc = "done"
  /\ input.patterns = <<Rule("Email", <<"k">>, {"ignorecase"})>>
  /\ input.rows = << <<Cell("colA", <<"9">>)>>, <<Cell("colA", <<"k">>)>> >>
  /\ Len(FoundInTable) = 1
  /\ FoundInTable[1].location = [row |-> 1, column |-> "colA"]


\* the record build_evidence_match returned and the pieces of its context
Built == IF IsBuild /\ pc = "done" THEN result.value ELSE build_evidence_match(NoOut, [pattern |-> "", value |-> <<>>, start |-> 0, end |-> 0, context |-> <<>>, location |-> NoLocation])
Pieces == Built.context
HasPiece(kind) == \E i \in 1..Len(Pieces) : Pieces[i].kind = kind
PieceOf(kind) == Pieces[CHOOSE i \in 1..Len(Pieces) : Pieces[i].kind = kind]
PieceRank(kind) ==
  CASE kind = "tabela" -> 1 [] kind = "linha" -> 2 [] kind = "location" -> 3 [] OTHER -> 4

\* text is `padded` without the whitespace at its two ends
IsTrimOf(text, padded) ==
  /\ text = <<>> \/ (text[1] \notin Whitespace /\ text[Len(text)] \notin Whitespace)
  /\ \E a \in 0..Len(padded) : \E b \in 0..(Len(padded) - a) :
       /\ text = SubSeq(padded, a + 1, Len(padded) - b)
       /\ \A k \in 1..a : padded[k] \in Whitespace
       /\ \A k \in (Len(padded) - b + 1)..Len(padded) : padded[k] \in Whitespace

\* C17: the context of a built record is made of, in this order, the table
\* name and the row index of a database-row payload (each when it is there,
\* row 0 included), the location of the match when it has one, and the
\* trimmed context window of the match when it has one; nothing stands for a
\* fragment that does not apply, and the context is None exactly when none
\* applies.
C17_ContextComposition ==
  (IsBuild /\ pc = "done") =>
    LET payload == input.payload
        match == input.match
        row == payload.payload_type = "database_row"
    IN /\ \A i \in 1..Len(Pieces) : \A j \in 1..Len(Pieces) :
            i < j => PieceRank(Pieces[i].kind) < PieceRank(Pieces[j].kind)
       /\ HasPiece("tabela") <=> (row /\ payload.table # "")
       /\ HasPiece("tabela") => PieceOf("tabela").name = payload.table
       /\ HasPiece("linha") <=> (row /\ payload.row_index # -1)
       /\ HasPiece("linha") => PieceOf("linha").n = payload.row_index
       /\ HasPiece("location") <=> match.location # NoLocation
       /\ HasPiece("location") =>
            /\ PieceOf("location").n = match.location.row
            /\ PieceOf("location").name = match.location.column
       /\ HasPiece("context") <=> match.context # <<>>
       /\ HasPiece("context") => IsTrimOf(PieceOf("context").text, match.context)
       /\ Pieces = <<>> <=>
            /\ ~(row /\ payload.table # "")
            /\ ~(row /\ payload.row_index # -1)
            /\ match.location = NoLocation
            /\ match.context = <<>>

\* C17 witness: a record of row 0 of a table, for a located match with a
\* padded context, has all four pieces
C17_Witness ==
  /\ IsBuild
  /\ pc = "done"
  /\ input.payload.payload_type = "database_row"
  /\ input.payload.row_index = 0
  /\ input.match.context = <<" ", "k", "\t">>
  /\ Len(Pieces) = 4
  /\ Pieces[2].kind = "linha"
  /\ Pieces[4].text = <<"k">>

\* C18: a record has no timestamp when the member has no modification time;
\* a naive time keeps its clock fields, an aware time is moved to UTC; every
\* timestamp is written with a final "Z" and not with "+00:00".
C18_TimestampNormalized ==
  (IsBuild /\ pc = "done") =>
    LET modified == input.payload.modified
        timestamp == Built.timestamp
    IN /\ timestamp.present <=> modified.present
       /\ ~modified.present => timestamp = NoTime
       /\ (modified.present /\ ~modified.aware) => timestamp.clock = modified.clock
       /\ (modified.present /\ modified.aware) =>
            timestamp.clock + modified.offset = modified.clock
       /\ timestamp.present => (timestamp.z /\ timestamp.offset = 0)

\* C18 witness: the record of a member modified at 01:00 in a zone two hours
\* ahead of UTC has the timestamp of 23:00 the day before, with "Z"
C18_Witness ==
  /\ IsBuild
  /\ pc = "done"
  /\ input.payload.modified.aware
  /\ input.payload.modified.offset = 120
  /\ Built.timestamp.clock = -60
  /\ Built.timestamp.z


\* the objects read back from the structured artifact
ReadBack == json_load(json.records)

\* the fields of a record handed to the reporter that hold a value
Present(record) ==
  {"source_file", "internal_path", "pattern_type", "match_value"}
    \cup (IF record.file_type # None THEN {"file_type"} ELSE {})
    \cup (IF record.context # <<>> THEN {"context"} ELSE {})
    \cup (IF record.timestamp.present THEN {"timestamp"} ELSE {})

\* C19: after write(), the structured artifact read back is the list of the
\* records added since construction or the last clear(), one object per
\* record in the order added (repeated records repeated), each object with
\* exactly the fields of its record that are not None and with their values.
C19_StructuredRoundTrip ==
  (IsReporter /\ pc = "written") =>
    /\ Len(ReadBack) = Len(calls)
    /\ \A i \in 1..Len(calls) :
         /\ DOMAIN ReadBack[i] = Present(calls[i])
         /\ \A key \in Present(calls[i]) : ReadBack[i][key] = calls[i][key]

\* C19 witness: a report written after add_match and extend_matches holds
\* three objects, two of them equal, and one without optional fields
C19_Witness ==
  /\ IsReporter
  /\ pc = "written"
  /\ Len(calls) = 3
  /\ "add_match" \in Range(events)
  /\ "extend_matches" \in Range(events)
  /\ calls[2] = calls[3]
  /\ \E i \in 1..3 : DOMAIN ReadBack[i] =
                       {"source_file", "internal_path", "pattern_type", "match_value"}
  /\ \E i \in 1..3 : "timestamp" \in DOMAIN ReadBack[i]

\* C20: write() leaves the records held and the match count as they are, and
\* a write() that directly follows a write() leaves both artifacts with the
\* content they had.
C20_WriteIdempotent ==
  [][(IsReporter /\ events' = Append(events, "write")) =>
       /\ matches' = matches
       /\ Len(matches') = Len(matches)
       /\ (events # <<>> /\ events[Len(events)] = "write") =>
            /\ csv'.records = csv.records
            /\ json'.records = json.records
            /\ csv'.path = csv.path
            /\ json'.path = json.path]_vars

\* C20 witness: write() was called twice in a row on a reporter holding
\* records
C20_Witness ==
  /\ IsReporter
  /\ Len(events) >= 3
  /\ events[Len(events)] = "write"
  /\ events[Len(events) - 1] = "write"
  /\ matches # <<>>
  /\ csv.writes >= 2
  /\ Len(csv.records) = Len(matches) + 1


\* C22 (as claimed): run_pipeline writes the structured report to the output
\* path the caller gave and returns that path as the summary's output.
C22_CallerPathWritten ==
  (IsPipeline /\ pc = "done") =>
    /\ json.writes >= 1
    /\ json.path = OutputPath
    /\ result.output = OutputPath

\* the events the generator's callback received, the conversion attempts and
\* the text payloads yielded, for the i-th textual member
StartsOf(i) ==
  {k \in 1..Len(gen.log) : /\ gen.log[k].kind = "event" /\ gen.log[k].index = i
                           /\ gen.log[k].stage = "start"}
EndsOf(i) ==
  {k \in 1..Len(gen.log) : /\ gen.log[k].kind = "event" /\ gen.log[k].index = i
                           /\ gen.log[k].stage \in {"done", "skip"}}
AttemptsOf(i) ==
  {k \in 1..Len(gen.log) : gen.log[k].kind = "attempt" /\ gen.log[k].index = i}
TextYieldsOf(i) ==
  {k \in 1..Len(gen.log) : /\ gen.log[k].kind = "yield" /\ gen.log[k].index = i
                           /\ gen.log[k].payload.payload_type = "text"}
ProgressStages ==
  {gen.log[k].stage : k \in {j \in 1..Len(gen.log) : gen.log[j].kind = "event"}}

\* C23: with a progress callback, every textual member the generator has
\* reached has exactly one "start" event, then exactly one conversion attempt,
\* then exactly one end event, "done" if and only if its payload is yielded
\* (right after the event) and "skip" otherwise; the start of a member comes
\* after the end of the member before it, and when the generator ends every
\* textual member of the plan has been reached.
C23_ProgressPerMember ==
  (IsNavigator /\ input.cb /\ gen.phase \in {"rows", "text", "done", "raised"}) =>
    /\ ProgressStages \subseteq {"start", "done", "skip"}
    /\ \A i \in 1..Len(gen.plan.textual_members) :
         /\ Cardinality(StartsOf(i)) <= 1
         /\ Cardinality(AttemptsOf(i)) = Cardinality(StartsOf(i))
         /\ Cardinality(EndsOf(i)) = Cardinality(StartsOf(i))
         /\ Cardinality(TextYieldsOf(i)) <= 1
         /\ \A s \in StartsOf(i) : \A a \in AttemptsOf(i) : \A e \in EndsOf(i) :
              /\ s < a /\ a < e
              /\ gen.log[s].name = gen.plan.textual_members[i].name
              /\ gen.log[e].name = gen.plan.textual_members[i].name
              /\ gen.log[s].total = Len(gen.plan.textual_members)
              /\ gen.log[e].stage = "done" <=> TextYieldsOf(i) # {}
              /\ \A y \in TextYieldsOf(i) : y = e + 1
              /\ i > 1 => \E before \in EndsOf(i - 1) : before < s
         /\ TextYieldsOf(i) # {} => EndsOf(i) # {}
         /\ gen.phase = "done" => StartsOf(i) # {}
    /\ \A k \in 1..Len(gen.log) :
         gen.log[k].kind \in {"event", "attempt"} =>
           gen.log[k].index \in 1..Len(gen.plan.textual_members)

\* C23 witness: an archive with a member that converts and one that is
\* skipped was read to the end with a callback
C23_Witness ==
  /\ IsNavigator
  /\ input.cb
  /\ gen.phase = "done"
  /\ Len(gen.plan.textual_members) >= 2
  /\ \E i \in 1..Len(gen.plan.textual_members) :
       \E e \in EndsOf(i) : gen.log[e].stage = "done"
  /\ \E i \in 1..Len(gen.plan.textual_members) :
       \E e \in EndsOf(i) : gen.log[e].stage = "skip"

\* the names of the members of the archive, and of a subset of the plan
ArchiveNames == input.disk[input.found[1]].names
NamesOf(members) == [i \in 1..Len(members) |-> members[i].name]
RECURSIVE IsSubSequence(_, _)
IsSubSequence(part, whole) ==
  IF part = <<>> THEN TRUE
  ELSE IF whole = <<>> THEN FALSE
  ELSE IF Head(part) = Head(whole) THEN IsSubSequence(Tail(part), Tail(whole))
  ELSE IsSubSequence(part, Tail(whole))

\* C24: in the plan of an archive no directory is in the database or the
\* textual subset, no member is in both, a member with another extension is
\* in neither, every other member with a database extension is in the
\* database subset and every other member with a textual or image extension
\* in the textual subset, and both subsets keep the archive's order.
C24_PlanPartition ==
  (IsNavigator /\ gen.planned) =>
    LET database == NamesOf(gen.plan.database_members)
        textual == NamesOf(gen.plan.textual_members)
    IN /\ NamesOf(gen.plan.members) = ArchiveNames
       /\ \A name \in Range(ArchiveNames) :
            /\ IsDirName(name) => name \notin Range(database) \cup Range(textual)
            /\ ~(name \in Range(database) /\ name \in Range(textual))
            /\ name \in OtherNames => name \notin Range(database) \cup Range(textual)
            /\ name \in DatabaseNames => name \in Range(database)
            /\ name \in TextNames => name \in Range(textual)
       /\ IsSubSequence(database, ArchiveNames)
       /\ IsSubSequence(textual, ArchiveNames)

\* C24 witness: the plan of an archive with a directory, a member of another
\* kind, a database and textual members
C24_Witness ==
  /\ IsNavigator
  /\ gen.planned
  /\ ArchiveNames = <<"r.txt", "d.db/", "logs.SQLITE", "a.bin", "blank.md", "i.PNG">>
  /\ NamesOf(gen.plan.database_members) = <<"logs.SQLITE">>
  /\ NamesOf(gen.plan.textual_members) = <<"r.txt", "blank.md", "i.PNG">>

\* the place of a table in the catalog of a database member
TablePlace(name, table) ==
  CHOOSE t \in 1..Len(DbOf(name).tables) : DbOf(name).tables[t].name = table

\* C25: the rows of a database member are yielded table by table in catalog
\* order, and the row_index of a row is the number of rows of its table
\* yielded before it: 0, 1, .. within every table.
C25_TableByTable ==
  IsNavigator =>
    \A j \in 1..Len(RowTriples) :
      /\ RowTriples[j][3] =
           Cardinality({k \in 1..(j - 1) : /\ RowTriples[k][1] = RowTriples[j][1]
                                            /\ RowTriples[k][2] = RowTriples[j][2]})
      /\ \A k \in 1..(j - 1) :
           RowTriples[k][1] = RowTriples[j][1] =>
             TablePlace(RowTriples[k][1], RowTriples[k][2])
               <= TablePlace(RowTriples[j][1], RowTriples[j][2])

\* C25 witness: two rows of one table and a row of each of two tables of
\* another database were yielded
C25_Witness ==
  /\ IsNavigator
  /\ \E j \in 1..Len(RowTriples) : RowTriples[j] = <<"data/messages.db", "messages", 1>>
  /\ \E j \in 1..Len(RowTriples) :
       /\ j > 1
       /\ RowTriples[j] = <<"logs.SQLITE", "b", 0>>
       /\ RowTriples[j - 1] = <<"logs.SQLITE", "a", 0>>

\* failures is a sub-list of found without repetition
RECURSIVE PlaceIn(_, _)
PlaceIn(item, list) ==
  IF list = <<>> THEN 0
  ELSE IF list[Len(list)] = item THEN Len(list)
  ELSE PlaceIn(item, SubSeq(list, 1, Len(list) - 1))

\* C29: in the summary run_pipeline returns, the match total is the number of
\* objects in the structured report and the number of rows after the header
\* of the tabular report (as the match count of any reporter is after a
\* write), processed is the number of archives found, and the failures are
\* archives found, each once, in the order found.
C29_SummaryConsistent ==
  /\ (IsReporter /\ pc = "written") =>
       /\ Len(matches) = Len(json_load(json.records))
       /\ Len(matches) = Len(csv.records) - 1
  /\ (IsPipeline /\ pc = "done") =>
    /\ result.matches = Len(json_load(json.records))
    /\ result.matches = Len(csv.records) - 1
    /\ result.matches = Len(matches)
    /\ result.processed = Len(input.found)
    /\ \A i \in 1..Len(result.failures) :
         /\ PlaceIn(result.failures[i], input.found) > 0
         /\ \A j \in 1..Len(result.failures) :
              i < j => PlaceIn(result.failures[i], input.found)
                         < PlaceIn(result.failures[j], input.found)

\* C29 witness: a run over two archives that both fail returned its summary
C29_Witness ==
  /\ IsPipeline
  /\ pc = "done"
  /\ result.processed = 2
  /\ Len(result.failures) = 2
  /\ json.writes = 1
  /\ Len(csv.records) = 1


\* C26 (as claimed): with a column subset only the columns it names produce
\* matches, and none when it names no column; without a subset every string
\* field of every row is scanned; a value that is no string produces no match.
C26_ScansWhatIsAsked ==
  (IsScanTable /\ pc = "done") =>
    /\ input.subset =>
         \A m \in 1..Len(FoundInTable) :
           \E c \in 1..Len(input.columns) :
             input.columns[c] = FoundInTable[m].location.column
    /\ (input.subset /\ input.columns = <<>>) => FoundInTable = <<>>
    /\ ~input.subset =>
         \A i \in 1..Len(input.rows) : \A k \in 1..Len(input.rows[i]) :
           input.rows[i][k].str =>
             \A r \in 1..Len(input.patterns) :
               MatchesOfRule(input.patterns[r], input.rows[i][k].value, input.window) # <<>>
                 => \E m \in 1..Len(FoundInTable) :
                      /\ FoundInTable[m].location =
                           [row |-> i - 1, column |-> input.rows[i][k].column]
                      /\ FoundInTable[m].pattern = input.patterns[r].name
    /\ \A m \in 1..Len(FoundInTable) :
         \A k \in 1..Len(input.rows[FoundInTable[m].location.row + 1]) :
           LET cell == input.rows[FoundInTable[m].location.row + 1][k]
           IN cell.column = FoundInTable[m].location.column => cell.str


\* the records _run_regex returned, and the pieces of one kind in a context
Scanned == IF IsRunRegex /\ pc = "done" THEN result.value ELSE <<>>
PiecesOfKind(context, kind) == SelectSeq(context, LAMBDA piece : piece.kind = kind)

\* C30: every record _run_regex builds for a database-row payload is located
\* at row 0 of a one-row table, whatever the row's index in its table: there
\* is one record per match of the row's cells scanned as a table of one row,
\* its location piece reads row 0, the row's index appears in the row-index
\* piece only, and the two differ whenever the index is above 0.  A record of
\* a text payload has neither piece.
C30_DatabaseMatchesLocatedAtRowZero ==
  (IsRunRegex /\ pc = "done") =>
    IF input.payload.payload_type = "database_row"
    THEN /\ Len(Scanned) =
              Len(scan_table(input.patterns, <<input.payload.cells>>, <<>>, ContextWindow))
         /\ \A i \in 1..Len(Scanned) :
              LET located == PiecesOfKind(Scanned[i].context, "location")
                  line == PiecesOfKind(Scanned[i].context, "linha")
              IN /\ Len(located) = 1 /\ located[1].n = 0
                 /\ \E k \in 1..Len(input.payload.cells) :
                      input.payload.cells[k].column = located[1].name
                 /\ Len(line) = 1 /\ line[1].n = input.payload.row_index
                 /\ input.payload.row_index > 0 <=> line[1].n # located[1].n
    ELSE \A i \in 1..Len(Scanned) :
           /\ PiecesOfKind(Scanned[i].context, "location") = <<>>
           /\ PiecesOfKind(Scanned[i].context, "linha") = <<>>

\* a row with index 1 in its table was scanned and a record came out of it
C30_Witness ==
  /\ IsRunRegex /\ pc = "done"
  /\ input.payload.payload_type = "database_row"
  /\ input.payload.row_index > 0
  /\ Scanned # <<>>


\* the events of one archive among those the callback received
EventsOf(path) == SelectSeq(events, LAMBDA event : event.path = path)
EventsOfType(path, type) == SelectSeq(EventsOf(path), LAMBDA event : event.type = type)

\* C28 (as claimed): with a progress callback, every archive whose members
\* can be listed has one archive-start event first among its events, its
\* member-progress events carry the start's total and an index in 1..total,
\* one archive-complete event comes last unless the archive failed, in which
\* case there is none, and the events of an archive are contiguous.
C28_EventsBracketed ==
  (IsPipeline /\ pc = "done" /\ input.cb) =>
    \A i \in 1..Len(input.found) :
      LET path == input.found[i]
          own == EventsOf(path)
          failed == \E f \in 1..Len(result.failures) : result.failures[f] = path
      IN /\ plan_processing(input.disk[path]).ok =>
              /\ Len(EventsOfType(path, "ufdr-start")) = 1
              /\ own[1].type = "ufdr-start"
              /\ own[1].detail.total =
                   Len(plan_processing(input.disk[path]).plan.textual_members)
         /\ \A e \in 1..Len(own) :
              own[e].type = "text-progress" =>
                /\ own[1].type = "ufdr-start"
                /\ own[e].detail.total = own[1].detail.total
                /\ own[e].detail.index \in 1..own[1].detail.total
         /\ IF failed THEN EventsOfType(path, "ufdr-complete") = <<>>
            ELSE /\ Len(EventsOfType(path, "ufdr-complete")) = 1
                 /\ own[Len(own)].type = "ufdr-complete"
         /\ \A a, b \in 1..Len(events) :
              (a < b /\ events[a].path = path /\ events[b].path = path) =>
                \A between \in a..b : events[between].path = path


\* the two artifacts before write() started and as write() is to leave them
OldJson == PreviousArtifact(input.previous, "json")
OldCsv == PreviousArtifact(input.previous, "csv")
NewJson == write_json(OldJson, OutputPath, input.records)
NewCsv == write_csv(OldCsv, [OutputPath EXCEPT !.suffix = ".csv"], input.records)

\* C21: at every point of a write(), the file at each final path is what was
\* there before (or nothing, if nothing was) or the complete new report,
\* never a part of it, also when a write into the temporary file raises.  The
\* structured report is replaced first and on its own: from then on it is the
\* new one while the tabular one is the old one until its own replacement;
\* a failure while the structured one is written leaves both old, a failure
\* while the tabular one is written leaves the structured one new; a write()
\* that returns leaves both new.
C21_ArtifactsAtomic ==
  IsWrite =>
    /\ json \in {OldJson, NewJson}
    /\ csv \in {OldCsv, NewCsv}
    /\ pc = "start" => json = OldJson /\ csv = OldCsv
    /\ (pc = "dumping" /\ tmp.artifact = "json") => json = OldJson
    /\ (pc = "dumping" /\ tmp.artifact = "csv") => json = NewJson /\ csv = OldCsv
    /\ pc = "replaced" => json = NewJson /\ csv = OldCsv
    /\ pc = "written" => json = NewJson /\ csv = NewCsv
    /\ pc = "raised" =>
         IF input.fault.artifact = "json" THEN json = OldJson /\ csv = OldCsv
         ELSE json = NewJson /\ csv = OldCsv

\* the write of the tabular report raised after its header and a row were
\* in the temporary file: the structured report is the new one already, the
\* tabular one still the old one, and both differ from what they replace
C21_Witness ==
  /\ IsWrite /\ pc = "raised"
  /\ tmp.artifact = "csv" /\ Len(tmp.chunks) = 2
  /\ input.previous.present
  /\ json = NewJson /\ json.records # OldJson.records
  /\ csv = OldCsv /\ csv.records # NewCsv.records

====
